---- MODULE Spec2Model ----
(***************************************************************************)
(* Model of the AE validation pipeline                                     *)
(*   src/validators/validation_pipeline.py   (ValidationPipeline)          *)
(*   src/validators/schematronValidator.py   (the declarative-stage tool)  *)
(*   src/validators/python_logical_validations.py (PythonLogicalValidator) *)
(*                                                                         *)
(* Strings of the documents (SHORT-NAME values, DEST / Ref attributes) are *)
(* sequences of symbols: "/" and " " are the separator and the blank, any  *)
(* other symbol stands for a run of identifier characters.  A name is a    *)
(* one-symbol string.                                                      *)
(***************************************************************************)
EXTENDS Integers, Sequences, FiniteSets, TLC

VARIABLES
    environ,            \* what is installed / on disk: xmlschema, xsd file, sch file
    pstate,             \* "new" before construction, "ready" after
    flagSet,            \* was check_filesystem given explicitly by the caller / CLI
    xsd_schema,         \* ValidationPipeline.xsd_schema: "None" or "loaded"
    check_filesystem,   \* ValidationPipeline.check_filesystem
    pc,                 \* position inside validate_file
    xml_file,           \* the document being validated (index into Docs), 0 if none
    result,             \* the ValidationResult under construction
    stageLog,           \* stages that have run for the current document, in order
    raised,             \* an exception left validate_file
    tool,               \* what the external engines did in this run
    indices,            \* the PythonLogicalValidator's lookup indices
    errors,             \* PythonLogicalValidator.errors of the last run
    firstRun,           \* what the pipeline's first validation (a document alone) returned
    hashseed,           \* the interpreter's string hash seed, drawn when the process starts
    rule_pos,           \* validate_all: how many of its rule calls have returned
    dest_in,            \* a DEST / Ref attribute value handed to the path helpers
    normalized_out,     \* what _normalize_dest_path(dest) returned
    short_name_out,     \* what _extract_short_name_from_dest(dest) returned
    norm_pc,            \* which of the two helpers have returned for dest
    gen_count,          \* generate_category_data: its argument count
    attempted,          \* generate_category_data: attempted
    valid_examples,     \* generate_category_data: valid_examples
    dataset,            \* the records of the JSONL dataset file
    gen_pc              \* where generate_category_data stands

vars == << environ, pstate, flagSet, xsd_schema, check_filesystem, pc, xml_file,
           result, stageLog, raised, tool, indices, errors, firstRun, hashseed,
           rule_pos, dest_in, normalized_out, short_name_out, norm_pc,
           gen_count, attempted, valid_examples, dataset, gen_pc >>

\* the variables of the path helpers
norm_vars == << dest_in, normalized_out, short_name_out, norm_pc >>

\* the variables of the dataset generation
gen_vars == << gen_count, attempted, valid_examples, dataset, gen_pc >>

\* no generation is under way
GenIdle ==
    /\ gen_count = 0
    /\ attempted = 0
    /\ valid_examples = << >>
    /\ dataset = << >>
    /\ gen_pc = "idle"

-----------------------------------------------------------------------------
(* Bounds of the model *)

MaxToolMsgs == 1        \* messages one run of an external engine reports at most
MaxCores == 2           \* the largest CoresPerCluster of the generated documents
MaxDestLen == 4         \* the longest DEST value handed to the path helpers alone
MaxCount == 2           \* the largest count generate_category_data is called with

-----------------------------------------------------------------------------
(* Strings *)

SLASH == "/"
BLANK == " "

Last(s) == s[Len(s)]
Front(s) == SubSeq(s, 1, Len(s) - 1)

RECURSIVE lstrip(_, _)
lstrip(s, c) == IF s # << >> /\ Head(s) = c THEN lstrip(Tail(s), c) ELSE s

RECURSIVE rstrip(_, _)
rstrip(s, c) == IF s # << >> /\ Last(s) = c THEN rstrip(Front(s), c) ELSE s

\* str.strip(c): the leading and trailing run of c removed
strip(s, c) == rstrip(lstrip(s, c), c)

\* str.split("/"): always at least one piece, empty pieces kept
RECURSIVE split(_, _)
split(s, acc) ==
    IF s = << >> THEN << acc >>
    ELSE IF Head(s) = SLASH THEN << acc >> \o split(Tail(s), << >>)
    ELSE split(Tail(s), Append(acc, Head(s)))

\* needle occurs in s as a contiguous substring
Contains(s, needle) ==
    \E i \in 1..(Len(s) - Len(needle) + 1) :
        SubSeq(s, i, i + Len(needle) - 1) = needle

\* characters that are symbols of their own in the names and paths of
\* PRE-BUILT-APPLICATIONs
UNDERSCORE == "_"
HYPHEN == "-"
DOT == "."
NEWLINE == "\n"

\* the symbols that stand for one character; every other symbol stands for a
\* run of two characters or more
SingleChars == { SLASH, BLANK, UNDERSCORE, HYPHEN, DOT, NEWLINE, "X" }

\* the symbols that are no letter, digit or underscore, and the symbols that
\* stand for a run of letters and digits beginning with a digit
Punctuation == { SLASH, BLANK, HYPHEN, DOT, NEWLINE }
DigitFirst == { "1x" }

\* len(s) > 1
LongerThanOne(s) == Len(s) > 1 \/ (Len(s) = 1 /\ s[1] \notin SingleChars)

\* str.upper(): the symbols written in lower case and their upper case; any
\* other symbol is its own upper case
LowerCase == { "gcc", "arm", "clang", "msvc", "iar" }
UpperSymbol(c) ==
    CASE c = "gcc" -> "GCC"
      [] c = "arm" -> "ARM"
      [] c = "clang" -> "CLANG"
      [] c = "msvc" -> "MSVC"
      [] c = "iar" -> "IAR"
      [] OTHER -> c
upper(s) == [i \in 1..Len(s) |-> UpperSymbol(s[i])]

\* s.split(sep)[-1]: what follows the last sep of s
RECURSIVE AfterLast(_, _)
AfterLast(s, sep) ==
    IF s = << >> \/ Last(s) = sep THEN << >>
    ELSE Append(AfterLast(Front(s), sep), Last(s))

\* sep in s
Has(s, sep) == \E i \in 1..Len(s) : s[i] = sep

_normalize_dest_path(dest) == strip(strip(dest, BLANK), SLASH)

_extract_short_name_from_dest(dest) ==
    LET segments == split(_normalize_dest_path(dest), << >>)
    IN  IF Len(segments) > 0 THEN Last(segments) ELSE << >>

-----------------------------------------------------------------------------
(* Documents.                                                              *)
(* A document is the parsed tree reduced to the nodes the modelled rules   *)
(* read, every list in document order, plus the files around it on disk.   *)
(*   name = << >>  : the node has no SHORT-NAME child                      *)
(*   tref = << >>  : the port has no *-INTERFACE-TREF child                *)

N(x) == << x >>
Path2(a, b) == << SLASH, a, SLASH, b >>
Path3(a, b, c) == << SLASH, a, SLASH, b, SLASH, c >>

Port(name, tref) == [name |-> name, tref |-> tref]

\* a DATA-READ-ACCESS / DATA-WRITE-ACCESS of runnable number `runnable` of its
\* component: the SHORT-NAME of its VARIABLE-ACCESS and its PORT-PROTOTYPE-REF/@DEST
Access(runnable, dir, name, portRef) ==
    [runnable |-> runnable, dir |-> dir, name |-> name, portRef |-> portRef]

\* a READ / WRITE of an OPERATIONS-SEQUENCE: iref is FALSE without IREF child
Op(kind, iref, dest) == [kind |-> kind, iref |-> iref, dest |-> dest]

\* accesses: the data accesses of the runnables, in document order;
\* ops: SWC-INTERNAL-BEHAVIOR/OPERATIONS-SEQUENCE
Swc(name, pports, rports, runnables) ==
    [name |-> name, pports |-> pports, rports |-> rports, runnables |-> runnables,
     accesses |-> << >>, ops |-> << >>]

\* ops: the INTERNAL-BEHAVIOR/OPERATIONS-SEQUENCE/OPERATION elements, each the
\* list of its READ and WRITE children
Hwip(name, pports, rports) ==
    [name |-> name, pports |-> pports, rports |-> rports, ops |-> << >>]

\* an attribute read with int(): absent, not a number, or the integer
NoInt == [kind |-> "absent", v |-> 0]
NotANumber == [kind |-> "nan", v |-> 0]
IntAttr(n) == [kind |-> "int", v |-> n]

\* CoresPerCluster: the attribute of the first element below the CPU_Cluster
\* that carries one
\* os: the local name of the first child of Operating-System ("": none);
\* cpu_type: the local name, "AFM-" removed, of the first descendant named
\* AFM-... or RISCV... ("": none)
Cluster(name, cortexA53) ==
    [name |-> name, cortexA53 |-> cortexA53, CoresPerCluster |-> NoInt, os |-> "Linux",
     cpu_type |-> ""]

WithOs(cluster, os, cpu_type) == [cluster EXCEPT !.os = os, !.cpu_type = cpu_type]

\* a node of an Analysis block that can enable power analysis: a PowerAnalysis
\* element with its enabled attribute, the PowerAnalysisEnabled attribute of
\* the Analysis element, or a Power-Analysis-Enable element (value "")
PowerNode(kind, value) == [kind |-> kind, value |-> value]

\* ethMode: "absent" (no ETHERNET-INTERFACE), "nomode" (no Mode attribute), or the Mode
Soc(name, ethMode, clusters) == [name |-> name, ethMode |-> ethMode, clusters |-> clusters]

\* a HW-SW-MAPPING with its ClusterRef attribute (<< >>: empty) and the
\* references of its children.
\* CoreId: the CoreId of each Core-PrebuiltApplication-Mapping;
\* cpamClusterRef: the ClusterRef each Cluster-PrebuiltApplication-Mapping
\* carries itself (<< >>: none)
Mapping(ClusterRef, crms, corepams, cpams) ==
    [ClusterRef |-> ClusterRef, crms |-> crms, corepams |-> corepams, cpams |-> cpams,
     CoreId |-> [k \in 1..Len(corepams) |-> NoInt],
     cpamClusterRef |-> [k \in 1..Len(cpams) |-> << >>]]

\* toolchain: the text of the TOOLCHAIN child (<< >>: no child, or no text)
App(name, path, exists, executable) ==
    [name |-> name, path |-> path, exists |-> exists, executable |-> executable,
     toolchain |-> << >>]

WithToolchain(app, text) == [app EXCEPT !.toolchain = text]

\* proto: "empty", "bad" or "ok" (matches 'void f(void)')
CustomOp(proto, headerFile, headerExists, includesDir, includesExists, sourcesDir, sourcesExists) ==
    [proto |-> proto, headerFile |-> headerFile, headerExists |-> headerExists,
     includesDir |-> includesDir, includesExists |-> includesExists,
     sourcesDir |-> sourcesDir, sourcesExists |-> sourcesExists]

EmptyDoc ==
    [wellFormed |-> TRUE, isDir |-> FALSE, sris |-> << >>, swcs |-> << >>,
     socs |-> << >>, ethSwitches |-> << >>, mappings |-> << >>, apps |-> << >>,
     hwips |-> << >>, customOps |-> << >>, irefs |-> << >>, analysis |-> << >>,
     ecus |-> << >>, chiplets |-> << >>, events |-> << >>]

SocC1 == Soc(N("SoC1"), "absent", << Cluster(N("C1"), TRUE) >>)
RefC1 == Path3("E1", "SoC1", "C1")
RefR1 == Path3("A", "IB", "R1")
RefR2 == Path3("A", "IB", "R2")

\* a document with no finding: one runnable, mapped once
DocClean ==
    [EmptyDoc EXCEPT
        !.sris = << N("S1") >>,
        !.swcs = << Swc(N("A"), << >>, << >>, << N("R1") >>) >>,
        !.socs = << SocC1 >>,
        !.mappings = << Mapping(RefC1, << RefR1 >>, << >>, << >>) >>]

\* not well-formed XML
DocMalformed == [EmptyDoc EXCEPT !.wellFormed = FALSE]

\* the path of a directory holding no .xml file
DocEmptyDir == [EmptyDoc EXCEPT !.wellFormed = FALSE, !.isDir = TRUE]

\* only defect: a Core-Runnable-Mapping whose RunnableRef resolves to nothing
DocBadRunnableRef ==
    [EmptyDoc EXCEPT
        !.socs = << SocC1 >>,
        !.mappings = << Mapping(RefC1, << RefR1 >>, << >>, << >>) >>]

\* only defect: a Cluster-PrebuiltApplication-Mapping whose reference resolves to nothing
DocBadClusterAppRef ==
    [EmptyDoc EXCEPT
        !.socs = << SocC1 >>,
        !.mappings = << Mapping(RefC1, << >>, << >>, << Path2("Apps", "App1") >>) >>]

\* only defect: a Core-PrebuiltApplication-Mapping whose reference resolves to nothing
DocBadCoreAppRef ==
    [EmptyDoc EXCEPT
        !.socs = << SocC1 >>,
        !.mappings = << Mapping(RefC1, << >>, << Path2("Apps", "App1") >>, << >>) >>]

\* a hardware block providing and requiring both S1 and S2
DocHwipShared ==
    [EmptyDoc EXCEPT
        !.sris = << N("S1"), N("S2") >>,
        !.hwips = << Hwip(N("H1"),
                          << Port(N("P1"), Path2("If", "S1")), Port(N("P2"), Path2("If", "S2")) >>,
                          << Port(N("Q1"), Path2("If", "S1")), Port(N("Q2"), Path2("If", "S2")) >>) >>]

\* a hardware block providing and requiring S1 only
DocHwipOne ==
    [EmptyDoc EXCEPT
        !.sris = << N("S1") >>,
        !.hwips = << Hwip(N("H1"),
                          << Port(N("P1"), Path2("If", "S1")) >>,
                          << Port(N("Q1"), Path2("If", "S1")) >>) >>]

\* an Eth-Switch carrying S1 and S2, used by component A, whose SoC is not 'simulated'
DocEth ==
    [EmptyDoc EXCEPT
        !.sris = << N("S1"), N("S2") >>,
        !.swcs = << Swc(N("A"),
                        << Port(N("P1"), Path2("If", "S1")) >>,
                        << Port(N("Q2"), Path2("If", "S2")) >>,
                        << N("R1") >>) >>,
        !.socs = << Soc(N("SoC1"), "real", << Cluster(N("C1"), TRUE) >>) >>,
        !.ethSwitches = << << Path2("If", "S1"), Path2("If", "S2") >> >>,
        !.mappings = << Mapping(RefC1, << RefR1 >>, << >>, << >>) >>]

\* as DocEth, with a second component B using S1 too, and the runnable of B
\* nested under A: its RunnableRef /A/B/R1 holds both "/A/" and "/B/"
DocEthNested ==
    [EmptyDoc EXCEPT
        !.sris = << N("S1") >>,
        !.swcs = << Swc(N("A"), << Port(N("P1"), Path2("If", "S1")) >>, << >>, << >>),
                    Swc(N("B"), << >>, << Port(N("Q1"), Path2("If", "S1")) >>,
                        << N("R1") >>) >>,
        !.socs = << Soc(N("SoC1"), "real", << Cluster(N("C1"), TRUE) >>) >>,
        !.ethSwitches = << << Path2("If", "S1") >> >>,
        !.mappings = << Mapping(RefC1, << Path3("A", "B", "R1") >>, << >>, << >>) >>]

\* a prebuilt application whose PATH is not on disk
DocAppMissing ==
    [EmptyDoc EXCEPT
        !.socs = << SocC1 >>,
        !.apps = << App(N("App1"), << "bin", SLASH, "gcc", SLASH, "app" >>, FALSE, FALSE) >>,
        !.mappings = << Mapping(RefC1, << >>, << >>, << Path2("Apps", "App1") >>) >>]

\* a prebuilt application whose PATH is on disk but not executable
DocAppNotExec ==
    [EmptyDoc EXCEPT
        !.apps = << App(N("App1"), << "bin", SLASH, "gcc", SLASH, "app" >>, TRUE, FALSE) >>]

\* a CUSTOM-OPERATION whose header file is not on disk
DocCustomOp ==
    [EmptyDoc EXCEPT
        !.customOps = << CustomOp("ok", N("op.h"), FALSE, N("inc"), TRUE, N("src"), TRUE) >>]

\* R1 mapped twice, R2 not mapped
DocMapCount ==
    [EmptyDoc EXCEPT
        !.swcs = << Swc(N("A"), << >>, << >>, << N("R1"), N("R2") >>) >>,
        !.socs = << SocC1 >>,
        !.mappings = << Mapping(RefC1, << RefR1, RefR1 >>, << >>, << >>) >>]

\* an unmapped runnable, and a prebuilt application whose PATH is not on disk
DocUnmappedAndApp ==
    [EmptyDoc EXCEPT
        !.swcs = << Swc(N("A"), << >>, << >>, << N("R1") >>) >>,
        !.apps = << App(N("App1"), << "bin", SLASH, "gcc", SLASH, "app" >>, FALSE, FALSE) >>]

WithAccesses(swc, accesses) == [swc EXCEPT !.accesses = accesses]

\* component A: provide-ports P0, P1, P2 written by no, one and two
\* DATA-WRITE-ACCESS, require-ports Q0, Q1, Q2 read by no, one and two
\* DATA-READ-ACCESS; one write access names a port that does not exist, one
\* names the require-port Q0
DocPortRefs ==
    [EmptyDoc EXCEPT
        !.sris = << N("S0"), N("S1"), N("S2"), N("T0"), N("T1"), N("T2") >>,
        !.swcs = << WithAccesses(
                      Swc(N("A"),
                          << Port(N("P0"), Path2("If", "S0")), Port(N("P1"), Path2("If", "S1")),
                             Port(N("P2"), Path2("If", "S2")) >>,
                          << Port(N("Q0"), Path2("If", "T0")), Port(N("Q1"), Path2("If", "T1")),
                             Port(N("Q2"), Path2("If", "T2")) >>,
                          << N("R1"), N("R2") >>),
                      << Access(1, "write", N("w1"), Path2("A", "P1")),
                         Access(1, "write", N("w2"), Path2("A", "P2")),
                         Access(1, "write", N("w3"), Path2("A", "PX")),
                         Access(1, "read", N("r1"), Path2("A", "Q1")),
                         Access(1, "read", N("r2"), Path2("A", "Q2")),
                         Access(2, "write", N("w4"), Path2("A", "P2")),
                         Access(2, "write", N("w5"), Path2("A", "Q0")),
                         Access(2, "read", N("r3"), Path2("A", "Q2")) >>) >>,
        !.socs = << SocC1 >>,
        !.mappings = << Mapping(RefC1, << RefR1, RefR2 >>, << >>, << >>) >>]

\* two components with a port of the same name, each written once
DocPortsTwoSwcs ==
    [EmptyDoc EXCEPT
        !.sris = << N("S1"), N("S2") >>,
        !.swcs = << WithAccesses(
                      Swc(N("A"), << Port(N("P1"), Path2("If", "S1")) >>, << >>, << N("R1") >>),
                      << Access(1, "write", N("w1"), Path2("A", "P1")) >>),
                    WithAccesses(
                      Swc(N("B"), << Port(N("P1"), Path2("If", "S2")) >>, << >>, << N("R2") >>),
                      << Access(1, "write", N("w2"), Path2("B", "P1")) >>) >>,
        !.socs = << SocC1 >>,
        !.mappings = << Mapping(RefC1, << RefR1, Path3("B", "IB", "R2") >>, << >>, << >>) >>]

WithOps(x, ops) == [x EXCEPT !.ops = ops]

\* component A, runnable R1 reading r1 and writing w1, with READ and WRITE
\* operations whose IREF is missing, empty, resolving (absolute, relative,
\* surrounded by blanks), naming nothing, or naming the access of the other
\* direction; InterfaceReferences that are empty, resolving and naming nothing
DocOps ==
    [EmptyDoc EXCEPT
        !.sris = << N("S1"), N("T1") >>,
        !.swcs = << WithOps(WithAccesses(
                      Swc(N("A"), << Port(N("P1"), Path2("If", "S1")) >>,
                          << Port(N("Q1"), Path2("If", "T1")) >>, << N("R1") >>),
                      << Access(1, "read", N("r1"), Path2("A", "Q1")),
                         Access(1, "write", N("w1"), Path2("A", "P1")) >>),
                      << Op("READ", TRUE, Path3("A", "R1", "r1")),
                         Op("READ", TRUE, << BLANK >> \o Path3("A", "R1", "r1") \o << BLANK >>),
                         Op("READ", TRUE, N("r1")),
                         Op("READ", TRUE, Path3("A", "R1", "rX")),
                         Op("READ", TRUE, Path3("A", "R1", "w1")),
                         Op("READ", FALSE, << >>),
                         Op("WRITE", TRUE, Path3("A", "R1", "w1")),
                         Op("WRITE", TRUE, Path3("A", "R1", "r1")),
                         Op("WRITE", TRUE, Path2("R1", "wX")),
                         Op("WRITE", TRUE, << BLANK >>) >>) >>,
        !.socs = << SocC1 >>,
        !.mappings = << Mapping(RefC1, << RefR1 >>, << >>, << >>) >>,
        !.irefs = << Path2("If", "S1"), Path2("If", "SX"), << BLANK, "If", SLASH, "T1" >>,
                     << >>, N("S1"), N("SX") >>]

HwipPorts ==
    Hwip(N("H1"),
         << Port(N("P1"), Path2("If", "S1")), Port(N("X"), Path2("If", "S2")) >>,
         << Port(N("Q1"), Path2("If", "T1")), Port(N("X"), Path2("If", "T2")) >>)

\* a hardware block whose operations name a port of their direction, a port of
\* the other direction, a name that is a port of both, no port, or nothing
DocHwipOps ==
    [EmptyDoc EXCEPT
        !.sris = << N("S1"), N("S2"), N("T1"), N("T2") >>,
        !.hwips = << WithOps(HwipPorts,
                       << << Op("WRITE", TRUE, Path2("H1", "P1")),
                             Op("READ", TRUE, Path2("H1", "Q1")) >>,
                          << Op("READ", TRUE, Path2("H1", "P1")),
                             Op("WRITE", TRUE, Path2("H1", "Q1")),
                             Op("WRITE", TRUE, Path2("H1", "ZZ")),
                             Op("READ", TRUE, Path2("H1", "X")),
                             Op("READ", FALSE, << >>) >> >>) >>]

\* a hardware block without SHORT-NAME whose READ names a provide-port
DocHwipUnnamed ==
    [EmptyDoc EXCEPT
        !.sris = << N("S1"), N("S2"), N("T1"), N("T2") >>,
        !.hwips = << WithOps([HwipPorts EXCEPT !.name = << >>],
                       << << Op("READ", TRUE, Path2("H1", "P1")) >> >>) >>]

\* two runnables named R1, in two components
DocRunnableTwice ==
    [EmptyDoc EXCEPT
        !.swcs = << Swc(N("A"), << >>, << >>, << N("R1"), N("R2") >>),
                    Swc(N("B"), << >>, << >>, << N("R1") >>) >>,
        !.socs = << SocC1 >>,
        !.mappings = << Mapping(RefC1, << RefR1, RefR2 >>, << >>, << >>) >>]

\* three runnables named R1 and two named R2
DocRunnableThrice ==
    [EmptyDoc EXCEPT
        !.swcs = << Swc(N("A"), << >>, << >>, << N("R1"), N("R2"), N("R1") >>),
                    Swc(N("B"), << >>, << >>, << N("R2"), N("R1"), N("R3") >>) >>,
        !.socs = << SocC1 >>,
        !.mappings = << Mapping(RefC1, << RefR1, RefR2, Path3("B", "IB", "R3") >>,
                                << >>, << >>) >>]

\* R1 mapped twice (in two HW-SW-MAPPINGs), R2 not mapped, R3 mapped once
DocMapKinds ==
    [EmptyDoc EXCEPT
        !.swcs = << Swc(N("A"), << >>, << >>, << N("R1"), N("R2"), N("R3") >>) >>,
        !.socs = << SocC1 >>,
        !.mappings = << Mapping(RefC1, << RefR1, Path3("A", "IB", "R3") >>, << >>, << >>),
                        Mapping(RefC1, << << BLANK >> \o RefR1, << BLANK >>,
                                          Path3("A", "IB", "RX") >>, << >>, << >>) >>]

WithCpamClusterRefs(mapping, refs) == [mapping EXCEPT !.cpamClusterRef = refs]

SocC1C2 == Soc(N("SoC1"), "absent", << Cluster(N("C1"), TRUE), Cluster(N("C2"), TRUE) >>)
RefC2 == Path3("E1", "SoC1", "C2")
RefApp1 == Path2("Apps", "App1")
App1 == App(N("App1"), << "bin", SLASH, "gcc", SLASH, "app" >>, TRUE, TRUE)

\* cluster C1 named by a runnable mapping, a core-level and a cluster-level
\* prebuilt-application mapping of one HW-SW-MAPPING
DocClusterBoth ==
    [EmptyDoc EXCEPT
        !.swcs = << Swc(N("A"), << >>, << >>, << N("R1") >>) >>,
        !.socs = << SocC1 >>,
        !.apps = << App1 >>,
        !.mappings = << Mapping(RefC1, << RefR1 >>, << RefApp1 >>, << RefApp1 >>) >>]

\* C1 named by a runnable mapping and, from inside the HW-SW-MAPPING of C2, by
\* a Cluster-PrebuiltApplication-Mapping with a ClusterRef of its own; C2 named
\* by prebuilt-application mappings only
DocClusterAcross ==
    [EmptyDoc EXCEPT
        !.swcs = << Swc(N("A"), << >>, << >>, << N("R1") >>) >>,
        !.socs = << SocC1C2 >>,
        !.apps = << App1 >>,
        !.mappings = << Mapping(RefC1, << RefR1 >>, << >>, << >>),
                        WithCpamClusterRefs(
                            Mapping(RefC2, << >>, << RefApp1 >>, << RefApp1, RefApp1 >>),
                            << RefC1, << >> >>) >>]

\* C1 runs the runnable, C2 the prebuilt application
DocClusterApart ==
    [EmptyDoc EXCEPT
        !.swcs = << Swc(N("A"), << >>, << >>, << N("R1") >>) >>,
        !.socs = << SocC1C2 >>,
        !.apps = << App1 >>,
        !.mappings = << Mapping(RefC1, << RefR1 >>, << >>, << >>),
                        Mapping(RefC2, << >>, << RefApp1 >>, << RefApp1 >>) >>]

WithCores(cluster, cores) == [cluster EXCEPT !.CoresPerCluster = cores]
WithCoreIds(mapping, ids) == [mapping EXCEPT !.CoreId = ids]

\* cluster C1 of `cores` cores and the Core-PrebuiltApplication-Mappings with
\* the CoreIds `ids` on it
DocCore(ids, cores) ==
    [EmptyDoc EXCEPT
        !.socs = << Soc(N("SoC1"), "absent", << WithCores(Cluster(N("C1"), TRUE), cores) >>) >>,
        !.apps = << App1 >>,
        !.mappings = << WithCoreIds(Mapping(RefC1, << >>, [k \in 1..Len(ids) |-> RefApp1], << >>),
                                    ids) >>]

\* the CoreIds tried against a cluster: -1 .. MaxCores + 1
CoreIdRange == MaxCores + 3

\* one document per CoresPerCluster in 1..MaxCores and CoreId in -1..MaxCores+1
CoreDocs ==
    [k \in 1..(MaxCores * CoreIdRange) |->
        DocCore(<< IntAttr(((k - 1) % CoreIdRange) - 1) >>,
                IntAttr(((k - 1) \div CoreIdRange) + 1))]

\* a cluster of MaxCores cores with the CoreIds MaxCores - 1 and MaxCores
DocCoreBoundary ==
    DocCore(<< IntAttr(MaxCores - 1), IntAttr(MaxCores) >>, IntAttr(MaxCores))

\* CoreIds that are not checked: not a number, no CoresPerCluster on the
\* cluster, a CoresPerCluster that is not a number, a cluster that does not exist
DocCoreNotANumber == DocCore(<< NotANumber >>, IntAttr(MaxCores))
DocCoreNoCount == DocCore(<< IntAttr(MaxCores + 1) >>, NoInt)
DocCoreBadCount == DocCore(<< IntAttr(MaxCores + 1) >>, NotANumber)
DocCoreNoCluster ==
    [DocCore(<< IntAttr(MaxCores + 1) >>, IntAttr(MaxCores)) EXCEPT
        !.mappings = << WithCoreIds(Mapping(RefC2, << >>, << RefApp1 >>, << >>),
                                    << IntAttr(MaxCores + 1) >>) >>]

\* component A providing S1 and S2 and requiring S1 (written without leading
\* "/") and T1: R1 writes S1 and reads S1, R2 writes S2 and reads T1, R3 only
\* reads, through references written with and without leading "/"
DocReadWriteSame ==
    [EmptyDoc EXCEPT
        !.sris = << N("S1"), N("S2"), N("T1") >>,
        !.swcs = << WithAccesses(
                      Swc(N("A"),
                          << Port(N("P1"), Path2("If", "S1")), Port(N("P2"), Path2("If", "S2")) >>,
                          << Port(N("Q1"), << "If", SLASH, "S1" >>),
                             Port(N("Q2"), Path2("If", "T1")) >>,
                          << N("R1"), N("R2"), N("R3") >>),
                      << Access(1, "write", N("w1"), Path2("A", "P1")),
                         Access(1, "read", N("r1"), << "A", SLASH, "Q1" >>),
                         Access(2, "write", N("w2"), Path2("A", "P2")),
                         Access(2, "read", N("r2"), Path2("A", "Q2")),
                         Access(3, "read", N("r3"), << BLANK >> \o Path2("A", "Q1")),
                         Access(3, "read", N("r4"), Path2("A", "Q2")) >>) >>,
        !.socs = << SocC1 >>,
        !.mappings = << Mapping(RefC1, << RefR1, RefR2, Path3("A", "IB", "R3") >>,
                                << >>, << >>) >>]

\* a hardware block providing and requiring interface S1, the REQUIRED-INTERFACE-TREF
\* written without the leading "/"
DocHwipRelativeTref ==
    [EmptyDoc EXCEPT
        !.sris = << N("S1") >>,
        !.hwips = << Hwip(N("H1"),
                          << Port(N("P1"), Path2("If", "S1")) >>,
                          << Port(N("Q1"), << "If", SLASH, "S1" >>) >>) >>]

\* three components with an operation sequence each: the operations of A
\* reference accesses of R1 only, those of B accesses of R3 and of R4, those
\* of C one access of R5 and names that are no access
DocSequences ==
    [EmptyDoc EXCEPT
        !.sris = << N("S1"), N("T1") >>,
        !.swcs = << WithOps(WithAccesses(
                      Swc(N("A"), << >>, << >>, << N("R1"), N("R2") >>),
                      << Access(1, "read", N("r1"), Path2("A", "Q1")),
                         Access(1, "write", N("w1"), Path2("A", "P1")),
                         Access(2, "read", N("r2"), Path2("A", "Q1")) >>),
                      << Op("READ", TRUE, Path3("A", "R1", "r1")),
                         Op("WRITE", TRUE, Path3("A", "R1", "w1")) >>),
                    WithOps(WithAccesses(
                      Swc(N("B"), << >>, << >>, << N("R3"), N("R4") >>),
                      << Access(1, "read", N("r3"), Path2("B", "Q1")),
                         Access(2, "write", N("w4"), Path2("B", "P1")) >>),
                      << Op("READ", TRUE, Path3("B", "R3", "r3")),
                         Op("WRITE", TRUE, << BLANK >> \o Path3("B", "R4", "w4")),
                         Op("READ", TRUE, N("r3")) >>),
                    WithOps(WithAccesses(
                      Swc(N("C"), << >>, << >>, << N("R5") >>),
                      << Access(1, "read", N("r5"), Path2("C", "Q1")) >>),
                      << Op("READ", TRUE, Path3("C", "R5", "r5")),
                         Op("READ", TRUE, Path3("C", "R5", "rX")),
                         Op("WRITE", FALSE, << >>),
                         Op("WRITE", TRUE, << BLANK >>) >>) >>]

\* components A and B each with a runnable named R1; the sequence of A reads
\* an access of /A/R1 and an access of /B/R1
DocSequenceSameName ==
    [EmptyDoc EXCEPT
        !.swcs = << WithOps(WithAccesses(
                      Swc(N("A"), << >>, << >>, << N("R1") >>),
                      << Access(1, "read", N("r1"), Path2("A", "Q1")) >>),
                      << Op("READ", TRUE, Path3("A", "R1", "r1")),
                         Op("READ", TRUE, Path3("B", "R1", "r2")) >>),
                    WithAccesses(
                      Swc(N("B"), << >>, << >>, << N("R1") >>),
                      << Access(1, "read", N("r2"), Path2("B", "Q1")) >>) >>]

\* prebuilt applications whose toolchain comes from the TOOLCHAIN child, from
\* the SHORT-NAME, from the PATH, or from nowhere
DocToolchains ==
    [EmptyDoc EXCEPT
        !.apps = << WithToolchain(App(<< "A1", UNDERSCORE, "XY" >>, << "bin", SLASH, "app" >>,
                                      TRUE, TRUE), << BLANK, "gcc" >>),
                    WithToolchain(App(<< "A2", UNDERSCORE, "GCC" >>,
                                      << "bin", SLASH, "gcc", SLASH, "app" >>, TRUE, TRUE),
                                  << "iar" >>),
                    WithToolchain(App(<< "A3", HYPHEN, "clang" >>, << "bin", SLASH, "app" >>,
                                      TRUE, TRUE), << BLANK >>),
                    App(<< "A4", UNDERSCORE, "XY" >>, << "bin", SLASH, "gcc", SLASH, "app" >>,
                        TRUE, TRUE),
                    App(<< "A5", UNDERSCORE, "X" >>, << "bin", SLASH, "gcc", SLASH, "app" >>,
                        TRUE, TRUE),
                    App(<< "A6" >>, << "bin", SLASH, "app" >>, TRUE, TRUE),
                    App(<< "A7", UNDERSCORE, "X" >>, << "bin", SLASH, "app" >>, TRUE, TRUE),
                    App(<< >>, << "app", UNDERSCORE, "msvc", DOT, "bin" >>, TRUE, TRUE),
                    App(<< "A9", HYPHEN, "XY" >>,
                        << "app", HYPHEN, "arm", HYPHEN, "gcc" >>, TRUE, TRUE),
                    App(<< "A10", UNDERSCORE, "b", HYPHEN, "GCC" >>, << >>, TRUE, TRUE),
                    App(<< "A11", HYPHEN, "XY", UNDERSCORE >>,
                        << SLASH, "gcc", SLASH, "app", UNDERSCORE, "arm", DOT, "bin" >>,
                        TRUE, TRUE) >>]

\* two SoCs whose clusters satisfy or break the power-analysis restrictions,
\* with the given nodes in the Analysis block
DocPower(analysis) ==
    [EmptyDoc EXCEPT
        !.socs = << Soc(N("SoC1"), "absent",
                        << WithOs(WithCores(Cluster(N("C1"), TRUE), IntAttr(1)),
                                  "Nucleus_RTOS", "CortexA53"),
                           WithOs(WithCores(Cluster(N("C2"), TRUE), IntAttr(MaxCores)),
                                  "Linux", "CortexA510") >>),
                    Soc(N("SoC2"), "absent",
                        << WithOs(Cluster(N("C3"), FALSE), "", ""),
                           WithOs(WithCores(Cluster(N("C4"), FALSE), NotANumber),
                                  "Nucleus_RTOS", "RISCV64"),
                           WithOs(WithCores(Cluster(N("C5"), FALSE), IntAttr(0)),
                                  "AUTOSAR", "CortexM7") >>) >>,
        !.analysis = analysis]

PowerDocs ==
    << DocPower(<< PowerNode("PowerAnalysis", "true") >>),
       DocPower(<< PowerNode("PowerAnalysis", "false"), PowerNode("Analysis", "false"),
                   PowerNode("Analysis", "") >>),
       DocPower(<< PowerNode("PowerAnalysis", "false"), PowerNode("Power-Analysis-Enable", "") >>),
       DocPower(<< PowerNode("Analysis", ""), PowerNode("Analysis", "true") >>),
       DocPower(<< >>) >>

Event(type, name) == [type |-> type, name |-> name]

\* a document whose runnables, interfaces, SoCs, clusters, chiplets, hardware
\* blocks, ECUs and events carry the given names
DocNames(names) ==
    [EmptyDoc EXCEPT
        !.sris = names,
        !.swcs = << Swc(N("A"), << >>, << >>, names) >>,
        !.socs = [k \in 1..Len(names) |-> Soc(names[k], "absent", << Cluster(names[k], TRUE) >>)],
        !.hwips = [k \in 1..Len(names) |-> Hwip(names[k], << >>, << >>)],
        !.ecus = names,
        !.chiplets = names,
        !.events = [k \in 1..Len(names) |->
                       Event(<< "TRIGGER-EVENT", "TIMING-EVENT", "DATA-RECEIVED-EVENT" >>
                                 [(k % 3) + 1], names[k])]]

NameDocs ==
    << DocNames(<< << "R1" >>, << "int" >>, << "1x" >> >>),
       DocNames(<< << UNDERSCORE, "Bool" >>, << "a", HYPHEN, "b" >>, << UNDERSCORE, "x" >> >>),
       DocNames(<< << "R2", NEWLINE >>, << >>, << "a", UNDERSCORE, "1x" >> >>) >>

\* two prebuilt applications, one not executable and one not on disk, in a
\* document whose runnable name is a C keyword
DocAppsAfterFinding ==
    [EmptyDoc EXCEPT
        !.swcs = << Swc(N("A"), << >>, << >>, << N("int") >>) >>,
        !.apps = << App(N("App1"), << "bin", SLASH, "gcc", SLASH, "app" >>, TRUE, FALSE),
                    App(N("App2"), << "bin", SLASH, "gcc", SLASH, "app2" >>, FALSE, FALSE) >>]

Docs ==
    << DocClean, DocMalformed, DocEmptyDir, DocBadRunnableRef, DocBadClusterAppRef,
       DocBadCoreAppRef, DocHwipShared, DocHwipOne, DocEth, DocEthNested, DocAppMissing,
       DocAppNotExec, DocCustomOp, DocMapCount, DocUnmappedAndApp,
       DocPortRefs, DocPortsTwoSwcs, DocOps, DocHwipOps, DocHwipUnnamed,
       DocRunnableTwice, DocRunnableThrice, DocMapKinds,
       DocClusterBoth, DocClusterAcross, DocClusterApart,
       DocCoreBoundary, DocCoreNotANumber, DocCoreNoCount, DocCoreBadCount, DocCoreNoCluster >>
    \o CoreDocs
    \o << DocReadWriteSame, DocHwipRelativeTref, DocSequences, DocSequenceSameName,
          DocToolchains >>
    \o PowerDocs
    \o NameDocs
    \o << DocAppsAfterFinding >>

DocIds == 1..Len(Docs)

-----------------------------------------------------------------------------
(* Findings and tree locations *)

\* tree.getpath(element): the element kind and its position(s) in the document
XPath(tag, i, j) == [tag |-> tag, i |-> i, j |-> j]

\* an f-string message: its fixed text, the strings and the number formatted
\* into it, and the tree location formatted into it (rule 6)
Msg(id, args, num) == [id |-> id, args |-> args, num |-> num, at |-> XPath("", 0, 0)]

MsgAt(id, args, num, at) == [id |-> id, args |-> args, num |-> num, at |-> at]

ValidationError(rule_number, severity, message, xpath) ==
    [rule_number |-> rule_number, severity |-> severity, message |-> message,
     xpath |-> xpath, line_number |-> 0]

\* ValidationError.__repr__: "Rule N [severity]: message (at xpath)"
repr(err) ==
    [kind |-> "finding", rule |-> err.rule_number, severity |-> err.severity,
     text |-> err.message, xpath |-> err.xpath]

\* a plain message string of a stage, not made from a ValidationError
Text(id) ==
    [kind |-> "text", rule |-> 0, severity |-> "", text |-> Msg(id, << >>, 0),
     xpath |-> XPath("", 0, 0)]

\* [f(s[i]) : i in 1..Len(s)]
MapSeq(f(_), s) == [i \in 1..Len(s) |-> f(s[i])]

RECURSIVE Concat(_)
Concat(ss) == IF ss = << >> THEN << >> ELSE Head(ss) \o Concat(Tail(ss))

\* the elements of s satisfying keep, in order
RECURSIVE Filter(_, _)
Filter(keep(_), s) ==
    IF s = << >> THEN << >>
    ELSE IF keep(Head(s)) THEN << Head(s) >> \o Filter(keep, Tail(s))
    ELSE Filter(keep, Tail(s))

Range(s) == { s[i] : i \in 1..Len(s) }

\* s[:n]
Take(s, n) == SubSeq(s, 1, IF Len(s) < n THEN Len(s) ELSE n)

\* every order in which the members of a set can be iterated
Orderings(S) ==
    { f \in [1..Cardinality(S) -> S] : \A i, j \in 1..Cardinality(S) : i # j => f[i] # f[j] }

Reverse(s) == [k \in 1..Len(s) |-> s[Len(s) + 1 - k]]

\* str hashes are salted per process (PYTHONHASHSEED is random by default)
HashSeeds == { "seed_a", "seed_b" }

\* the order in which a set of strings is iterated in a process with the
\* given seed: fixed within the process, another one under another seed
SetOrder(S, seed) ==
    LET order == CHOOSE o \in Orderings(S) : TRUE
    IN  IF seed = "seed_a" THEN order ELSE Reverse(order)

\* all concatenations a \o b with a in A and b in B
Cat(A, B) == { a \o b : a \in A, b \in B }

-----------------------------------------------------------------------------
(* Node lists in document order (the xpath queries of the rules) *)

\* //RUNNABLE-ENTITY
Runnables(doc) ==
    Concat([i \in 1..Len(doc.swcs) |->
        [j \in 1..Len(doc.swcs[i].runnables) |->
            [name |-> doc.swcs[i].runnables[j], xpath |-> XPath("RUNNABLE-ENTITY", i, j)]]])

\* //CPU_Cluster
Clusters(doc) ==
    Concat([i \in 1..Len(doc.socs) |->
        [j \in 1..Len(doc.socs[i].clusters) |->
            [name |-> doc.socs[i].clusters[j].name,
             cortexA53 |-> doc.socs[i].clusters[j].cortexA53,
             CoresPerCluster |-> doc.socs[i].clusters[j].CoresPerCluster,
             os |-> doc.socs[i].clusters[j].os,
             cpu_type |-> doc.socs[i].clusters[j].cpu_type,
             soc |-> i, xpath |-> XPath("CPU_Cluster", i, j)]]])

\* //Core-Runnable-Mapping | //CoreRunnableMapping
Crms(doc) ==
    Concat([i \in 1..Len(doc.mappings) |->
        [j \in 1..Len(doc.mappings[i].crms) |->
            [RunnableRef |-> doc.mappings[i].crms[j], mapping |-> i,
             xpath |-> XPath("Core-Runnable-Mapping", i, j)]]])

\* //Core-PrebuiltApplication-Mapping | //CorePrebuiltAppMapping
CorePams(doc) ==
    Concat([i \in 1..Len(doc.mappings) |->
        [j \in 1..Len(doc.mappings[i].corepams) |->
            [PrebuiltApplicationRef |-> doc.mappings[i].corepams[j], mapping |-> i,
             CoreId |-> doc.mappings[i].CoreId[j],
             xpath |-> XPath("Core-PrebuiltApplication-Mapping", i, j)]]])

\* //Cluster-PrebuiltApplication-Mapping | //ClusterPrebuiltAppMapping
ClusterPams(doc) ==
    Concat([i \in 1..Len(doc.mappings) |->
        [j \in 1..Len(doc.mappings[i].cpams) |->
            [PrebuiltApplicationRef |-> doc.mappings[i].cpams[j], mapping |-> i,
             ClusterRef |-> doc.mappings[i].cpamClusterRef[j],
             xpath |-> XPath("Cluster-PrebuiltApplication-Mapping", i, j)]]])

\* //P-PORT-PROTOTYPE or //R-PORT-PROTOTYPE below an APPLICATION-SW-COMPONENT-TYPE
SwcPorts(doc, tag) ==
    Concat([i \in 1..Len(doc.swcs) |->
        LET ports == IF tag = "P-PORT-PROTOTYPE" THEN doc.swcs[i].pports ELSE doc.swcs[i].rports
        IN  [j \in 1..Len(ports) |->
                [name |-> ports[j].name, tref |-> ports[j].tref, swc |-> i,
                 swc_name |-> doc.swcs[i].name, xpath |-> XPath(tag, i, j)]]])

\* //DATA-READ-ACCESS (dir "read") or //DATA-WRITE-ACCESS (dir "write")
Accesses(doc, dir) ==
    Concat([i \in 1..Len(doc.swcs) |->
        MapSeq(LAMBDA a : [swc |-> i, runnable |-> a.runnable, name |-> a.name,
                           portRef |-> a.portRef],
               Filter(LAMBDA a : a.dir = dir, doc.swcs[i].accesses))])

\* //SWC-INTERNAL-BEHAVIOR/OPERATIONS-SEQUENCE//READ (or //WRITE)
SwcOps(doc, operation_type) ==
    Concat([i \in 1..Len(doc.swcs) |->
        Filter(LAMBDA op : op.kind = operation_type,
               [k \in 1..Len(doc.swcs[i].ops) |->
                   [kind |-> doc.swcs[i].ops[k].kind, iref |-> doc.swcs[i].ops[k].iref,
                    dest |-> doc.swcs[i].ops[k].dest, xpath |-> XPath(operation_type, i, k)]])])

\* how many READ / WRITE children the OPERATIONs before number o hold
RECURSIVE ChildrenBefore(_, _)
ChildrenBefore(ops, o) == IF o <= 1 THEN 0 ELSE ChildrenBefore(ops, o - 1) + Len(ops[o - 1])

\* operation.xpath("WRITE") (or "READ") of OPERATION number o of hardware block h
HwipOpChildren(doc, h, o, kind) ==
    LET ops == doc.hwips[h].ops
    IN  Filter(LAMBDA c : c.kind = kind,
               [k \in 1..Len(ops[o]) |->
                   [kind |-> ops[o][k].kind, iref |-> ops[o][k].iref, dest |-> ops[o][k].dest,
                    xpath |-> XPath("OPERATION/" \o ops[o][k].kind, h,
                                    ChildrenBefore(ops, o) + k)]])

\* a SHORT-NAME -> element dictionary filled in document order (a later node
\* with the same name replaces the earlier one); nodes without a name are left out
IndexOf(nodes) ==
    LET named == { k \in 1..Len(nodes) : nodes[k].name # << >> }
        names == { nodes[k].name : k \in named }
    IN  [n \in names |->
            LET last == CHOOSE k \in named :
                            /\ nodes[k].name = n
                            /\ \A m \in named : nodes[m].name = n => m <= k
            IN  nodes[last].xpath]

Named(tag, names) == [i \in 1..Len(names) |-> [name |-> names[i], xpath |-> XPath(tag, i, 0)]]

NoIndices ==
    [swc_index |-> << >>, runnable_index |-> << >>, sri_index |-> << >>,
     cluster_index |-> << >>, soc_index |-> << >>, prebuilt_app_index |-> << >>]

\* PythonLogicalValidator._build_indices; self is the validator's previous attributes
\* (chiplet_index is left out: the documents of the model hold no Chiplet)
_build_indices(self, doc) ==
    [swc_index |-> IndexOf(Named("APPLICATION-SW-COMPONENT-TYPE",
                                 [i \in 1..Len(doc.swcs) |-> doc.swcs[i].name])),
     runnable_index |-> IndexOf(Runnables(doc)),
     sri_index |-> IndexOf(Named("SENDER-RECEIVER-INTERFACE", doc.sris)),
     cluster_index |-> IndexOf(Clusters(doc)),
     soc_index |-> IndexOf(Named("SoCs", [i \in 1..Len(doc.socs) |-> doc.socs[i].name])),
     prebuilt_app_index |-> IndexOf(Named("PRE-BUILT-APPLICATION",
                                 [i \in 1..Len(doc.apps) |-> doc.apps[i].name]))]

-----------------------------------------------------------------------------
(* The rules.  self is [doc, idx, check_filesystem]: the validator's tree,  *)
(* its indices and its filesystem flag.  Each rule yields the findings it   *)
(* appends to self.errors, in the order it appends them.                    *)

Self(doc, idx, cfs, seed) ==
    [doc |-> doc, idx |-> idx, check_filesystem |-> cfs, hashseed |-> seed]

c_keywords ==
    { << "auto" >>, << "break" >>, << "case" >>, << "char" >>, << "const" >>, << "continue" >>,
      << "default" >>, << "do" >>, << "double" >>, << "else" >>, << "enum" >>, << "extern" >>,
      << "float" >>, << "for" >>, << "goto" >>, << "if" >>, << "inline" >>, << "int" >>,
      << "long" >>, << "register" >>, << "restrict" >>, << "return" >>, << "short" >>,
      << "signed" >>, << "sizeof" >>, << "static" >>, << "struct" >>, << "switch" >>,
      << "typedef" >>, << "union" >>, << "unsigned" >>, << "void" >>, << "volatile" >>,
      << "while" >>, << UNDERSCORE, "Alignas" >>, << UNDERSCORE, "Alignof" >>,
      << UNDERSCORE, "Atomic" >>, << UNDERSCORE, "Bool" >>, << UNDERSCORE, "Complex" >>,
      << UNDERSCORE, "Generic" >>, << UNDERSCORE, "Imaginary" >>, << UNDERSCORE, "Noreturn" >>,
      << UNDERSCORE, "Static", UNDERSCORE, "assert" >>,
      << UNDERSCORE, "Thread", UNDERSCORE, "local" >> }

\* re.compile(r"^[a-zA-Z_][a-zA-Z0-9_]*$").match(name): "$" matches at the end
\* of the string and also before a newline that ends the string
c_identifier_pattern_match(name) ==
    LET body == IF name # << >> /\ Last(name) = NEWLINE THEN Front(name) ELSE name
    IN  /\ body # << >>
        /\ \A i \in 1..Len(body) : body[i] \notin Punctuation
        /\ body[1] \notin DigitFirst

\* _validate_c_identifier: (is_valid, error_msg)
_validate_c_identifier(name) ==
    IF ~c_identifier_pattern_match(name)
    THEN [is_valid |-> FALSE, error_msg |-> "is not a valid C identifier"]
    ELSE IF name \in c_keywords
    THEN [is_valid |-> FALSE, error_msg |-> "is a reserved C keyword"]
    ELSE [is_valid |-> TRUE, error_msg |-> ""]

\* the loop the naming rules share: each node with a SHORT-NAME is handed to
\* _validate_c_identifier, a finding is appended when it is not valid
NamingFindings(rule_number, what, nodes) ==
    Concat([k \in 1..Len(nodes) |->
        IF nodes[k].name = << >> \/ _validate_c_identifier(nodes[k].name).is_valid THEN << >>
        ELSE << ValidationError(rule_number, "error",
                   Msg(_validate_c_identifier(nodes[k].name).error_msg,
                       << << what >>, nodes[k].name >>, 0),
                   nodes[k].xpath) >>])

\* Rule 7: runnable names
_validate_rule_7(self) == NamingFindings(7, "Runnable name", Runnables(self.doc))

\* //TIMING-EVENT, then //DATA-RECEIVED-EVENT, then //TRIGGER-EVENT
Events(doc) ==
    Concat([t \in 1..3 |->
        Filter(LAMBDA ev : ev.type = << "TIMING-EVENT", "DATA-RECEIVED-EVENT", "TRIGGER-EVENT" >>[t],
               [k \in 1..Len(doc.events) |->
                   [name |-> doc.events[k].name, type |-> doc.events[k].type,
                    xpath |-> XPath(doc.events[k].type, k, 0)]])])

\* Rule 16: event names
_validate_rule_16(self) == NamingFindings(16, "Event SHORT-NAME/@name", Events(self.doc))

\* Rule 28: SENDER-RECEIVER-INTERFACE names
_validate_rule_28(self) ==
    NamingFindings(28, "SENDER-RECEIVER-INTERFACE name",
                   Named("SENDER-RECEIVER-INTERFACE", self.doc.sris))

\* Rule 44: ECU names
_validate_rule_44(self) == NamingFindings(44, "ECU name", Named("ECUs", self.doc.ecus))

\* Rule 46: SoC names
_validate_rule_46(self) ==
    NamingFindings(46, "SoC name",
                   Named("SoCs", [i \in 1..Len(self.doc.socs) |-> self.doc.socs[i].name]))

\* Rule 52: chiplet names
_validate_rule_52(self) ==
    NamingFindings(52, "Chiplet name", Named("Chiplet", self.doc.chiplets))

\* Rule 56: hardware block names
_validate_rule_56(self) ==
    NamingFindings(56, "Generic_Hardware (HWIP) name",
                   Named("Generic_Hardware",
                         [h \in 1..Len(self.doc.hwips) |-> self.doc.hwips[h].name]))

supported_os_types == { << "Nucleus_RTOS" >>, << "Linux" >> }

\* Rule 70: the name of a CPU_Cluster, read from the SHORT-NAME of its first
\* Cortex... element, is a C identifier, and its Operating-System is a
\* supported one.  The Cortex... element of the clusters of the model is
\* CortexA53, which is none of the restricted cores of rule 72
_validate_rule_70(self) ==
    Concat(MapSeq(LAMBDA cluster :
        (IF cluster.cortexA53
         THEN NamingFindings(70, "CPU_Cluster SHORT-NAME",
                  << [name |-> cluster.name,
                      xpath |-> XPath("CPU_Cluster/SHORT-NAME", cluster.xpath.i,
                                      cluster.xpath.j)] >>)
         ELSE << >>)
        \o (IF cluster.os = ""
            THEN << ValidationError(70, "error",
                       Msg("CPU_Cluster has no Operating-System child element", << >>, 0),
                       cluster.xpath) >>
            ELSE IF << cluster.os >> \notin supported_os_types
            THEN << ValidationError(70, "error",
                       Msg("CPU_Cluster OS type is not in supported list",
                           << << cluster.os >> >>
                               \o SetOrder(supported_os_types, self.hashseed), 0),
                       cluster.xpath) >>
            ELSE << >>),
        Clusters(self.doc)))

\* rule 6 that remembers the last occurrence of a name instead of the first
_validate_rule_6_cites_previous(self) ==
    LET runnables == Filter(LAMBDA r : r.name # << >>, Runnables(self.doc))
        seen(k) == { m \in 1..(k - 1) : runnables[m].name = runnables[k].name }
    IN  Concat([k \in 1..Len(runnables) |->
            IF seen(k) # { }
            THEN << ValidationError(6, "error",
                       MsgAt("Duplicate RUNNABLE-ENTITY SHORT-NAME/@name found. Previous occurrence(s) at",
                             << runnables[k].name >>, 0,
                             runnables[CHOOSE m \in seen(k) : \A n \in seen(k) : n <= m].xpath),
                       runnables[k].xpath) >>
            ELSE << >>])

\* Rule 6: the names of the runnables are unique; name_to_paths keeps the
\* location of the first runnable of each name
_validate_rule_6(self) ==
    LET runnables == Filter(LAMBDA r : r.name # << >>, Runnables(self.doc))
        seen(k) == { m \in 1..(k - 1) : runnables[m].name = runnables[k].name }
    IN  Concat([k \in 1..Len(runnables) |->
            IF seen(k) # { }
            THEN << ValidationError(6, "error",
                       MsgAt("Duplicate RUNNABLE-ENTITY SHORT-NAME/@name found. Previous occurrence(s) at",
                             << runnables[k].name >>, 0,
                             runnables[CHOOSE m \in seen(k) : \A n \in seen(k) : m <= n].xpath),
                       runnables[k].xpath) >>
            ELSE << >>])

\* Rule 14: no runnable reads and writes the same interface.  port_to_sri maps
\* '/<component>/<port>' to the last piece of the port's TREF (a later port of
\* the same path replaces an earlier one); the accesses of a runnable are looked
\* up by their DEST, blanks stripped and a leading "/" added when missing;
\* sorted() puts the shared interfaces in one fixed order
_validate_rule_14(self) ==
    LET doc == self.doc
        ports == Concat([i \in 1..Len(doc.swcs) |->
                    IF doc.swcs[i].name = << >> THEN << >>
                    ELSE Filter(LAMBDA q : q.name # << >> /\ q.tref # << >>,
                                Filter(LAMBDA q : q.swc = i, SwcPorts(doc, "P-PORT-PROTOTYPE"))
                                \o Filter(LAMBDA q : q.swc = i,
                                          SwcPorts(doc, "R-PORT-PROTOTYPE")))])
        port_path(q) == << SLASH >> \o q.swc_name \o << SLASH >> \o q.name
        sri_name(q) ==
            LET interface_dest == strip(q.tref, BLANK)
            IN  Last(split(IF interface_dest # << >> /\ Head(interface_dest) = SLASH
                           THEN Tail(interface_dest) ELSE interface_dest, << >>))
        known(path) == { k \in 1..Len(ports) : port_path(ports[k]) = path }
        port_to_sri(path) == sri_name(ports[CHOOSE k \in known(path) :
                                                \A m \in known(path) : m <= k])
        normalized(dest) ==
            LET port_dest == strip(dest, BLANK)
            IN  IF port_dest # << >> /\ Head(port_dest) = SLASH THEN port_dest
                ELSE << SLASH >> \o port_dest
        sris(i, j, dir) ==
            { port_to_sri(normalized(a.portRef)) :
                a \in { b \in Range(Accesses(doc, dir)) :
                          /\ b.swc = i
                          /\ b.runnable = j
                          /\ known(normalized(b.portRef)) # { } } }
    IN  Concat([i \in 1..Len(doc.swcs) |->
            Concat([j \in 1..Len(doc.swcs[i].runnables) |->
                LET conflicting_sris == sris(i, j, "read") \cap sris(i, j, "write")
                    runnable_name == IF doc.swcs[i].runnables[j] # << >>
                                     THEN doc.swcs[i].runnables[j] ELSE N("unknown")
                IN  IF conflicting_sris # { }
                    THEN << ValidationError(14, "error",
                               Msg("RUNNABLE-ENTITY has both DATA-READ-ACCESS and DATA-WRITE-ACCESS to the same Sender-Receiver Interface(s)",
                                   << runnable_name >>
                                       \o (CHOOSE o \in Orderings(conflicting_sris) : TRUE), 0),
                               XPath("RUNNABLE-ENTITY", i, j)) >>
                    ELSE << >>])])

\* Rule 9: every named runnable is the target of a resolving Core-Runnable-Mapping
_validate_rule_9(self) ==
    LET crms == Filter(LAMBDA m : strip(m.RunnableRef, BLANK) # << >>, Crms(self.doc))
        mapping_runnable_refs == MapSeq(LAMBDA m : strip(m.RunnableRef, BLANK), crms)
        mapped == { _extract_short_name_from_dest(r) : r \in
                      { q \in Range(mapping_runnable_refs) :
                          /\ _extract_short_name_from_dest(q) # << >>
                          /\ _extract_short_name_from_dest(q) \in DOMAIN self.idx.runnable_index } }
        unmapped == Filter(LAMBDA r : r.name # << >> /\ r.name \notin mapped, Runnables(self.doc))
    IN  MapSeq(LAMBDA r : ValidationError(9, "error",
                   Msg("RUNNABLE-ENTITY is not mapped to any Cpu Core",
                       << r.name >> \o Take(mapping_runnable_refs, 10), 0),
                   r.xpath),
               unmapped)

\* rule 10 that tolerates a runnable mapped twice
_validate_rule_10_more_than_two(self) ==
    LET crms == Filter(LAMBDA m : /\ strip(m.RunnableRef, BLANK) # << >>
                                  /\ _extract_short_name_from_dest(strip(m.RunnableRef, BLANK)) # << >>,
                       Crms(self.doc))
        counts(name) == Cardinality({ k \in 1..Len(crms) :
                          _extract_short_name_from_dest(strip(crms[k].RunnableRef, BLANK)) = name })
        many == Filter(LAMBDA r : r.name # << >> /\ counts(r.name) > 2, Runnables(self.doc))
    IN  MapSeq(LAMBDA r : ValidationError(10, "error",
                   Msg("RUNNABLE-ENTITY is mapped more than once", << r.name >>, counts(r.name)),
                   r.xpath),
               many)

\* Rule 10: no named runnable is the target of more than one Core-Runnable-Mapping
_validate_rule_10(self) ==
    LET crms == Filter(LAMBDA m : /\ strip(m.RunnableRef, BLANK) # << >>
                                  /\ _extract_short_name_from_dest(strip(m.RunnableRef, BLANK)) # << >>,
                       Crms(self.doc))
        counts(name) == Cardinality({ k \in 1..Len(crms) :
                          _extract_short_name_from_dest(strip(crms[k].RunnableRef, BLANK)) = name })
        many == Filter(LAMBDA r : r.name # << >> /\ counts(r.name) > 1, Runnables(self.doc))
    IN  MapSeq(LAMBDA r : ValidationError(10, "error",
                   Msg("RUNNABLE-ENTITY is mapped more than once", << r.name >>, counts(r.name)),
                   r.xpath),
               many)

\* Rule 25, one attribute of a CUSTOM-OPERATION: empty is an error; when the
\* filesystem flag is on, a value that is not on disk is a warning
CustomOpAttr(self, xpath, attr, value, onDisk) ==
    IF value = << >> \/ strip(value, BLANK) = << >>
    THEN << ValidationError(25, "error",
               Msg("CUSTOM-OPERATION must have a non-empty attribute", << N(attr) >>, 0), xpath) >>
    ELSE IF self.check_filesystem
    THEN IF ~onDisk
         THEN << ValidationError(25, "warning",
                    Msg("CUSTOM-OPERATION attribute not found", << N(attr), value >>, 0), xpath) >>
         ELSE << >>
    ELSE << >>

\* Rule 25: each CUSTOM-OPERATION has valid inputs
_validate_rule_25(self) ==
    Concat([k \in 1..Len(self.doc.customOps) |->
        LET op == self.doc.customOps[k]
            xpath == XPath("CUSTOM-OPERATION", k, 0)
        IN  (IF op.proto = "empty"
             THEN << ValidationError(25, "error",
                        Msg("CUSTOM-OPERATION must have a non-empty functionPrototype attribute.",
                            << >>, 0), xpath) >>
             ELSE IF op.proto # "ok"
             THEN << ValidationError(25, "error",
                        Msg("CUSTOM-OPERATION functionPrototype must follow format", << >>, 0),
                        xpath) >>
             ELSE << >>)
            \o CustomOpAttr(self, xpath, "headerFile", op.headerFile, op.headerExists)
            \o CustomOpAttr(self, xpath, "includesDir", op.includesDir, op.includesExists)
            \o CustomOpAttr(self, xpath, "sourcesDir", op.sourcesDir, op.sourcesExists)])

\* the body of rules 4 and 5 that reports no port referenced more than once
PortReferencedOnce_at_least(rule_number, port, access, ports, refs) ==
    LET named == Filter(LAMBDA q : q.name # << >> /\ q.swc_name # << >>, ports)
        port_path(q) == << SLASH >> \o q.swc_name \o << SLASH >> \o q.name
        count(q) == Cardinality({ k \in 1..Len(refs) : refs[k] = port_path(q) })
    IN  Concat([k \in 1..Len(named) |->
            LET path == port_path(named[k])
                same == { m \in 1..Len(named) : port_path(named[m]) = path }
                element == named[CHOOSE m \in same : \A n \in same : n <= m]
            IN  IF \E m \in same : m < k THEN << >>
                ELSE IF count(named[k]) = 0
                THEN << ValidationError(rule_number, "error",
                           Msg("port has ZERO references",
                               << N(port), element.name, path, N(access) >>, 0),
                           element.xpath) >>
                ELSE << >>])

\* The body rules 4 and 5 share: a dictionary port path -> reference count, filled
\* from the named ports of named components (a later port with the same path
\* replaces the element and keeps the place), counted over the DEST strings of
\* the accesses that are equal to the path, then reported entry by entry
PortReferencedOnce(rule_number, port, access, ports, refs) ==
    LET named == Filter(LAMBDA q : q.name # << >> /\ q.swc_name # << >>, ports)
        port_path(q) == << SLASH >> \o q.swc_name \o << SLASH >> \o q.name
        count(q) == Cardinality({ k \in 1..Len(refs) : refs[k] = port_path(q) })
    IN  Concat([k \in 1..Len(named) |->
            LET path == port_path(named[k])
                same == { m \in 1..Len(named) : port_path(named[m]) = path }
                element == named[CHOOSE m \in same : \A n \in same : n <= m]
            IN  IF \E m \in same : m < k THEN << >>
                ELSE IF count(named[k]) = 0
                THEN << ValidationError(rule_number, "error",
                           Msg("port has ZERO references",
                               << N(port), element.name, path, N(access) >>, 0),
                           element.xpath) >>
                ELSE IF count(named[k]) > 1
                THEN << ValidationError(rule_number, "error",
                           Msg("port has more than one reference",
                               << N(port), element.name, path, N(access) >>, count(named[k])),
                           element.xpath) >>
                ELSE << >>])

\* Rule 5: each P-PORT-PROTOTYPE is referenced by exactly one DATA-WRITE-ACCESS
_validate_rule_5(self) ==
    PortReferencedOnce(5, "Provider", "DATA-WRITE-ACCESS",
                       SwcPorts(self.doc, "P-PORT-PROTOTYPE"),
                       MapSeq(LAMBDA a : a.portRef, Accesses(self.doc, "write")))

\* Rule 4: each R-PORT-PROTOTYPE is referenced by exactly one DATA-READ-ACCESS
_validate_rule_4(self) ==
    PortReferencedOnce(4, "Required", "DATA-READ-ACCESS",
                       SwcPorts(self.doc, "R-PORT-PROTOTYPE"),
                       MapSeq(LAMBDA a : a.portRef, Accesses(self.doc, "read")))

\* _validate_data_access_operation that looks the whole DEST up
_validate_data_access_operation_whole_dest(self, operation_type, rule_number) ==
    LET access_type == IF operation_type = "READ" THEN "DATA-READ-ACCESS"
                       ELSE "DATA-WRITE-ACCESS"
        dir == IF operation_type = "READ" THEN "read" ELSE "write"
        valid_data_access ==
            { a.name : a \in { b \in Range(Accesses(self.doc, dir)) : b.name # << >> } }
    IN  Concat(MapSeq(LAMBDA operation :
            IF ~operation.iref
            THEN << ValidationError(rule_number, "error",
                       Msg("operation missing IREF child.", << N(operation_type) >>, 0),
                       operation.xpath) >>
            ELSE
            LET dest == strip(operation.dest, BLANK)
                dest_name == dest
            IN  IF dest = << >>
                THEN << ValidationError(rule_number, "error",
                           Msg("operation IREF has empty DEST attribute.",
                               << N(operation_type) >>, 0),
                           operation.xpath) >>
                ELSE IF dest_name \notin valid_data_access
                THEN << ValidationError(rule_number, "error",
                           Msg("operation IREF DEST does not resolve to any SHORT-NAME",
                               << N(operation_type), dest, N(access_type) >>, 0),
                           operation.xpath) >>
                ELSE << >>,
            SwcOps(self.doc, operation_type)))

\* Rules 22 and 23: the IREF of every READ / WRITE of a component's
\* OPERATIONS-SEQUENCE names, by the part of its DEST behind the last "/", the
\* SHORT-NAME of a DATA-READ-ACCESS / DATA-WRITE-ACCESS
_validate_data_access_operation(self, operation_type, rule_number) ==
    LET access_type == IF operation_type = "READ" THEN "DATA-READ-ACCESS"
                       ELSE "DATA-WRITE-ACCESS"
        dir == IF operation_type = "READ" THEN "read" ELSE "write"
        valid_data_access ==
            { a.name : a \in { b \in Range(Accesses(self.doc, dir)) : b.name # << >> } }
    IN  Concat(MapSeq(LAMBDA operation :
            IF ~operation.iref
            THEN << ValidationError(rule_number, "error",
                       Msg("operation missing IREF child.", << N(operation_type) >>, 0),
                       operation.xpath) >>
            ELSE
            LET dest == strip(operation.dest, BLANK)
                dest_name == Last(split(dest, << >>))
            IN  IF dest = << >>
                THEN << ValidationError(rule_number, "error",
                           Msg("operation IREF has empty DEST attribute.",
                               << N(operation_type) >>, 0),
                           operation.xpath) >>
                ELSE IF dest_name \notin valid_data_access
                THEN << ValidationError(rule_number, "error",
                           Msg("operation IREF DEST does not resolve to any SHORT-NAME",
                               << N(operation_type), dest, N(access_type) >>, 0),
                           operation.xpath) >>
                ELSE << >>,
            SwcOps(self.doc, operation_type)))

_validate_rule_22(self) == _validate_data_access_operation(self, "READ", 22)

_validate_rule_23(self) == _validate_data_access_operation(self, "WRITE", 23)


\* //OPERATIONS-SEQUENCE: the READ and WRITE children of the OPERATIONs of each
\* sequence, the sequences of the components before those of the hardware blocks
OperationsSequences(doc) ==
    [i \in 1..Len(doc.swcs) |->
        [ops |-> doc.swcs[i].ops, xpath |-> XPath("OPERATIONS-SEQUENCE", i, 0)]]
    \o [h \in 1..Len(doc.hwips) |->
        [ops |-> Concat(doc.hwips[h].ops),
         xpath |-> XPath("Generic_Hardware/OPERATIONS-SEQUENCE", h, 0)]]

\* Rule 24: the READ / WRITE operations of a sequence reference data accesses
\* of one runnable.  data_access_to_runnable maps the SHORT-NAME of each data
\* access of a named runnable (its reads before its writes) to the SHORT-NAME
\* of the runnable, a later access of the same name replacing an earlier one
_validate_rule_24(self) ==
    LET doc == self.doc
        of(i, j, dir) ==
            MapSeq(LAMBDA a : [name |-> a.name, runnable_name |-> doc.swcs[i].runnables[j]],
                   Filter(LAMBDA a : a.swc = i /\ a.runnable = j /\ a.name # << >>,
                          Accesses(doc, dir)))
        entries == Concat([i \in 1..Len(doc.swcs) |->
                       Concat([j \in 1..Len(doc.swcs[i].runnables) |->
                           IF doc.swcs[i].runnables[j] = << >> THEN << >>
                           ELSE of(i, j, "read") \o of(i, j, "write")])])
        known(access_name) == { k \in 1..Len(entries) : entries[k].name = access_name }
        data_access_to_runnable(access_name) ==
            entries[CHOOSE k \in known(access_name) :
                        \A m \in known(access_name) : m <= k].runnable_name
        access_name(op) == Last(split(strip(op.dest, BLANK), << >>))
        referenced_runnables(ops) ==
            { data_access_to_runnable(access_name(ops[k])) :
                k \in { m \in 1..Len(ops) :
                          /\ ops[m].iref
                          /\ strip(ops[m].dest, BLANK) # << >>
                          /\ known(access_name(ops[m])) # { } } }
        sequences == OperationsSequences(doc)
    IN  Concat([q \in 1..Len(sequences) |->
            IF Cardinality(referenced_runnables(sequences[q].ops)) > 1
            THEN << ValidationError(24, "error",
                       Msg("OPERATIONS-SEQUENCE contains READ/WRITE operations referencing data accesses from multiple runnables",
                           CHOOSE o \in Orderings(referenced_runnables(sequences[q].ops)) : TRUE,
                           0),
                       sequences[q].xpath) >>
            ELSE << >>])


\* //Analysis//PowerAnalysis[@enabled='true'] | //Analysis[@PowerAnalysisEnabled='true']
\* | //Analysis//Power-Analysis-Enable
power_analysis(doc) ==
    Filter(LAMBDA n : \/ n.kind = "PowerAnalysis" /\ n.value = "true"
                      \/ n.kind = "Analysis" /\ n.value = "true"
                      \/ n.kind = "Power-Analysis-Enable",
           doc.analysis)

supported_types == { << "CortexA53" >>, << "CortexA57" >>, << "CortexA72" >>,
                     << "CortexR52" >>, << "CortexM7" >> }

\* Rule 83: with power analysis enabled, the CPU type of every CPU_Cluster is
\* a supported one; the message prints the set of supported types
_validate_rule_83(self) ==
    IF power_analysis(self.doc) = << >> THEN << >>
    ELSE Concat(MapSeq(LAMBDA cluster :
            IF cluster.cpu_type # "" /\ << cluster.cpu_type >> \notin supported_types
            THEN << ValidationError(83, "error",
                       Msg("Power Analysis enabled: CPU_Cluster type not in supported list",
                           << << cluster.cpu_type >> >>
                               \o SetOrder(supported_types, self.hashseed), 0),
                       cluster.xpath) >>
            ELSE << >>,
            Clusters(self.doc)))

\* rule 84 that looks at the clusters of the first SoC only
_validate_rule_84_first_soc(self) ==
    IF power_analysis(self.doc) = << >> THEN << >>
    ELSE Concat(MapSeq(LAMBDA cluster :
            IF cluster.os = ""
            THEN << ValidationError(84, "error",
                       Msg("Power Analysis enabled: CPU_Cluster has no Operating-System child",
                           << >>, 0),
                       cluster.xpath) >>
            ELSE IF cluster.os # "Nucleus_RTOS"
            THEN << ValidationError(84, "error",
                       Msg("Power Analysis enabled: CPU_Cluster OS not allowed for power runs",
                           << << cluster.os >> >>, 0),
                       cluster.xpath) >>
            ELSE << >>,
            Filter(LAMBDA cluster : cluster.soc = 1, Clusters(self.doc))))

\* Rule 84: with power analysis enabled, the Operating-System of every
\* CPU_Cluster is Nucleus_RTOS
_validate_rule_84(self) ==
    IF power_analysis(self.doc) = << >> THEN << >>
    ELSE Concat(MapSeq(LAMBDA cluster :
            IF cluster.os = ""
            THEN << ValidationError(84, "error",
                       Msg("Power Analysis enabled: CPU_Cluster has no Operating-System child",
                           << >>, 0),
                       cluster.xpath) >>
            ELSE IF cluster.os # "Nucleus_RTOS"
            THEN << ValidationError(84, "error",
                       Msg("Power Analysis enabled: CPU_Cluster OS not allowed for power runs",
                           << << cluster.os >> >>, 0),
                       cluster.xpath) >>
            ELSE << >>,
            Clusters(self.doc)))

\* Rule 85: with power analysis enabled, every CPU_Cluster whose
\* CoresPerCluster is a number has one core
_validate_rule_85(self) ==
    IF power_analysis(self.doc) = << >> THEN << >>
    ELSE Concat(MapSeq(LAMBDA cluster :
            IF cluster.CoresPerCluster.kind = "int" /\ cluster.CoresPerCluster.v # 1
            THEN << ValidationError(85, "error",
                       Msg("Power Analysis enabled: all CPU_Clusters must be single-core",
                           << >>, cluster.CoresPerCluster.v),
                       cluster.xpath) >>
            ELSE << >>,
            Clusters(self.doc)))

\* Rule 90: every InterfaceReference names an existing SENDER-RECEIVER-INTERFACE
_validate_rule_90(self) ==
    Concat([k \in 1..Len(self.doc.irefs) |->
        LET dest == strip(self.doc.irefs[k], BLANK)
            short_name == _extract_short_name_from_dest(dest)
            xpath == XPath("InterfaceReference", k, 0)
        IN  IF dest = << >>
            THEN << ValidationError(90, "error",
                       Msg("InterfaceReference has empty @DEST", << >>, 0), xpath) >>
            ELSE IF short_name \notin DOMAIN self.idx.sri_index
            THEN << ValidationError(90, "error",
                       Msg("InterfaceReference @DEST does not resolve to existing SENDER-RECEIVER-INTERFACE",
                           << dest >>, 0),
                       xpath) >>
            ELSE << >>])

\* rule 63 that only checks that the port exists
_validate_rule_63_existence_only(self) ==
    LET doc == self.doc
        names(ports) == { ports[k].name : k \in { m \in 1..Len(ports) : ports[m].name # << >> } }
        check(hwip_name, elem, own, other, own_tag, other_tag) ==
            IF ~elem.iref THEN << >>
            ELSE
            LET dest == strip(elem.dest, BLANK)
                port_name == Last(split(dest, << >>))
            IN  IF dest = << >> THEN << >>
                ELSE IF port_name \notin own
                THEN IF FALSE
                     THEN << ValidationError(63, "error",
                                Msg("operation in HWIP points to port of the other direction",
                                    << N(elem.kind), hwip_name, N(other_tag), port_name,
                                       N(own_tag) >>, 0),
                                elem.xpath) >>
                     ELSE << ValidationError(63, "error",
                                Msg("operation in HWIP references non-existent port",
                                    << N(elem.kind), hwip_name, port_name, dest >>, 0),
                                elem.xpath) >>
                ELSE << >>
    IN  Concat([h \in 1..Len(doc.hwips) |->
            LET hwip == doc.hwips[h]
                p_ports == names(hwip.pports)
                r_ports == names(hwip.rports)
            IN  IF hwip.name = << >> THEN << >>
                ELSE Concat([o \in 1..Len(hwip.ops) |->
                        Concat(MapSeq(LAMBDA write_elem :
                                   check(hwip.name, write_elem, p_ports, r_ports,
                                         "P-PORT-PROTOTYPE", "R-PORT"),
                                   HwipOpChildren(doc, h, o, "WRITE")))
                        \o Concat(MapSeq(LAMBDA read_elem :
                                   check(hwip.name, read_elem, r_ports, p_ports,
                                         "R-PORT-PROTOTYPE", "P-PORT"),
                                   HwipOpChildren(doc, h, o, "READ")))])])

\* Rule 63: every READ of a named hardware block names one of its R-PORTs, every
\* WRITE one of its P-PORTs (by the part of the DEST behind the last "/"); per
\* OPERATION the WRITE children are checked before the READ children
_validate_rule_63(self) ==
    LET doc == self.doc
        names(ports) == { ports[k].name : k \in { m \in 1..Len(ports) : ports[m].name # << >> } }
        check(hwip_name, elem, own, other, own_tag, other_tag) ==
            IF ~elem.iref THEN << >>
            ELSE
            LET dest == strip(elem.dest, BLANK)
                port_name == Last(split(dest, << >>))
            IN  IF dest = << >> THEN << >>
                ELSE IF port_name \notin own
                THEN IF port_name \in other
                     THEN << ValidationError(63, "error",
                                Msg("operation in HWIP points to port of the other direction",
                                    << N(elem.kind), hwip_name, N(other_tag), port_name,
                                       N(own_tag) >>, 0),
                                elem.xpath) >>
                     ELSE << ValidationError(63, "error",
                                Msg("operation in HWIP references non-existent port",
                                    << N(elem.kind), hwip_name, port_name, dest >>, 0),
                                elem.xpath) >>
                ELSE << >>
    IN  Concat([h \in 1..Len(doc.hwips) |->
            LET hwip == doc.hwips[h]
                p_ports == names(hwip.pports)
                r_ports == names(hwip.rports)
            IN  IF hwip.name = << >> THEN << >>
                ELSE Concat([o \in 1..Len(hwip.ops) |->
                        Concat(MapSeq(LAMBDA write_elem :
                                   check(hwip.name, write_elem, p_ports, r_ports,
                                         "P-PORT-PROTOTYPE", "R-PORT"),
                                   HwipOpChildren(doc, h, o, "WRITE")))
                        \o Concat(MapSeq(LAMBDA read_elem :
                                   check(hwip.name, read_elem, r_ports, p_ports,
                                         "R-PORT-PROTOTYPE", "P-PORT"),
                                   HwipOpChildren(doc, h, o, "READ")))])])

\* rule 38 without its check_filesystem guard
_validate_rule_38_unguarded(self) ==
    Concat([k \in 1..Len(self.doc.apps) |->
        LET app == self.doc.apps[k]
            dest == strip(app.path, BLANK)
            xpath == XPath("PATH", k, 0)
        IN  IF dest = << >> THEN << >>
            ELSE IF ~app.exists
            THEN << ValidationError(38, "error",
                       Msg("PRE-BUILT-APPLICATION PATH does not exist on filesystem", << dest >>, 0),
                       xpath) >>
            ELSE IF ~app.executable
            THEN << ValidationError(38, "warning",
                       Msg("PRE-BUILT-APPLICATION PATH exists but is not executable", << dest >>, 0),
                       xpath) >>
            ELSE << >>])

\* Rule 38: PRE-BUILT-APPLICATION/PATH must be on disk and executable
_validate_rule_38(self) ==
    IF ~self.check_filesystem THEN << >>
    ELSE Concat([k \in 1..Len(self.doc.apps) |->
        LET app == self.doc.apps[k]
            dest == strip(app.path, BLANK)
            xpath == XPath("PATH", k, 0)
        IN  IF dest = << >> THEN << >>
            ELSE IF ~app.exists
            THEN << ValidationError(38, "error",
                       Msg("PRE-BUILT-APPLICATION PATH does not exist on filesystem", << dest >>, 0),
                       xpath) >>
            ELSE IF ~app.executable
            THEN << ValidationError(38, "warning",
                       Msg("PRE-BUILT-APPLICATION PATH exists but is not executable", << dest >>, 0),
                       xpath) >>
            ELSE << >>])

\* rule 40 that rebuilds self.errors from the findings of its own rule 38 call
_validate_rule_40_rebuilt(errs, self) ==
    LET before_len == 0
        all == _validate_rule_38(self)
    IN  [k \in 1..Len(all) |->
            IF k > before_len /\ all[k].rule_number = 38
            THEN [all[k] EXCEPT !.rule_number = 40]
            ELSE all[k]]

\* rule 40 that renumbers the findings of severity "error" only
_validate_rule_40_errors_only(errs, self) ==
    LET before_len == Len(errs)
        all == errs \o _validate_rule_38(self)
    IN  [k \in 1..Len(all) |->
            IF k > before_len /\ all[k].rule_number = 38 /\ all[k].severity = "error"
            THEN [all[k] EXCEPT !.rule_number = 40]
            ELSE all[k]]

\* Rule 40: runs rule 38 and renumbers the findings it added; yields the whole list
_validate_rule_40(errs, self) ==
    LET before_len == Len(errs)
        all == errs \o _validate_rule_38(self)
    IN  [k \in 1..Len(all) |->
            IF k > before_len /\ all[k].rule_number = 38
            THEN [all[k] EXCEPT !.rule_number = 40]
            ELSE all[k]]

valid_toolchains == { << "GCC" >>, << "ARM" >>, << "CLANG" >>, << "MSVC" >> }

\* Rule 41, strategy 1: the text of the TOOLCHAIN child, stripped, in upper case
ToolchainElement(app) == upper(strip(app.toolchain, BLANK))

\* Rule 41, strategy 2: an allowed toolchain the SHORT-NAME ends with after
\* "_" or "-"; failing that what follows the last "_" of the name (the last
\* "-" when the name has no "_") if that is longer than one character
ToolchainOfShortName(app) ==
    LET name == app.name
        ends(tc) == /\ Len(name) >= 2
                    /\ upper(name)[Len(name)] = tc[1]
                    /\ name[Len(name) - 1] \in { UNDERSCORE, HYPHEN }
        potential_tc(sep) == upper(strip(AfterLast(name, sep), BLANK))
    IN  IF name = << >> THEN << >>
        ELSE IF \E tc \in valid_toolchains : ends(tc)
        THEN CHOOSE tc \in valid_toolchains : ends(tc)
        ELSE IF Has(name, UNDERSCORE)
        THEN IF LongerThanOne(potential_tc(UNDERSCORE)) THEN potential_tc(UNDERSCORE) ELSE << >>
        ELSE IF Has(name, HYPHEN)
        THEN IF LongerThanOne(potential_tc(HYPHEN)) THEN potential_tc(HYPHEN) ELSE << >>
        ELSE << >>

\* Rule 41, strategy 3: an allowed toolchain standing in PATH/@DEST as
\* /tc/, _tc., _tc_, -tc. or -tc- ; {<< >>} when there is none, else the
\* toolchains the loop over the set can stop at
ToolchainsOfPath(app) ==
    LET path_upper == upper(app.path)
        found == { tc \in valid_toolchains :
                     \/ Contains(path_upper, << SLASH >> \o tc \o << SLASH >>)
                     \/ Contains(path_upper, << UNDERSCORE >> \o tc \o << DOT >>)
                     \/ Contains(path_upper, << UNDERSCORE >> \o tc \o << UNDERSCORE >>)
                     \/ Contains(path_upper, << HYPHEN >> \o tc \o << DOT >>)
                     \/ Contains(path_upper, << HYPHEN >> \o tc \o << HYPHEN >>) }
    IN  IF found = { } THEN { << >> } ELSE found

\* the finding of rule 41 for PRE-BUILT-APPLICATION number k whose toolchain
\* came out as toolchain
ToolchainFinding(k, toolchain) ==
    IF toolchain = << >>
    THEN << ValidationError(41, "error",
               Msg("PRE-BUILT-APPLICATION missing toolchain indicator", << >>, 0),
               XPath("PRE-BUILT-APPLICATION", k, 0)) >>
    ELSE IF toolchain \notin valid_toolchains
    THEN << ValidationError(41, "error",
               Msg("PRE-BUILT-APPLICATION has invalid toolchain", << toolchain >>, 0),
               XPath("PRE-BUILT-APPLICATION", k, 0)) >>
    ELSE << >>

\* rule 41 that reads the SHORT-NAME before the TOOLCHAIN child
_validate_rule_41_name_first(self) ==
    Concat([k \in 1..Len(self.doc.apps) |->
        LET app == self.doc.apps[k]
            toolchain1 == ToolchainOfShortName(app)
            toolchain2 == IF toolchain1 = << >> THEN ToolchainElement(app)
                          ELSE toolchain1
            toolchain3 == IF toolchain2 = << >>
                          THEN CHOOSE t \in ToolchainsOfPath(app) : TRUE
                          ELSE toolchain2
        IN  ToolchainFinding(k, toolchain3)])

\* rule 41 that goes on to the next strategy when a strategy yields a value
\* that is not allowed
_validate_rule_41_first_allowed(self) ==
    Concat([k \in 1..Len(self.doc.apps) |->
        LET app == self.doc.apps[k]
            allowed(t) == IF t \in valid_toolchains THEN t ELSE << >>
            toolchain1 == allowed(ToolchainElement(app))
            toolchain2 == IF toolchain1 = << >> THEN allowed(ToolchainOfShortName(app))
                          ELSE toolchain1
            toolchain3 == IF toolchain2 = << >>
                          THEN CHOOSE t \in ToolchainsOfPath(app) : TRUE
                          ELSE toolchain2
        IN  ToolchainFinding(k, toolchain3)])

\* Rule 41: each PRE-BUILT-APPLICATION indicates an allowed toolchain.  The
\* toolchain the path loop stops at is always an allowed one and is named in
\* no finding, so one of them stands for all
_validate_rule_41(self) ==
    Concat([k \in 1..Len(self.doc.apps) |->
        LET app == self.doc.apps[k]
            toolchain1 == ToolchainElement(app)
            toolchain2 == IF toolchain1 = << >> THEN ToolchainOfShortName(app)
                          ELSE toolchain1
            toolchain3 == IF toolchain2 = << >>
                          THEN CHOOSE t \in ToolchainsOfPath(app) : TRUE
                          ELSE toolchain2
        IN  ToolchainFinding(k, toolchain3)])

\* rule 74 whose cluster_map leaves the Cluster-PrebuiltApplication-Mappings out
_validate_rule_74_core_level_only(self) ==
    LET doc == self.doc
        parent_ref(m) == doc.mappings[m.mapping].ClusterRef
        core_short(m) == _extract_short_name_from_dest(parent_ref(m))
        cluster_ref(m) == IF strip(m.ClusterRef, BLANK) # << >> THEN strip(m.ClusterRef, BLANK)
                          ELSE strip(parent_ref(m), BLANK)
        cluster_level_short(m) == _extract_short_name_from_dest(cluster_ref(m))
        crms == Crms(doc)
        corepams == CorePams(doc)
        cpams == Filter(LAMBDA m : cluster_ref(m) # << >>, ClusterPams(doc))
        keys == MapSeq(core_short, crms) \o MapSeq(core_short, corepams)
                    \o << >>
        types(c) ==
            (IF \E k \in 1..Len(crms) : core_short(crms[k]) = c THEN { "runnable" } ELSE { })
            \cup (IF \/ \E k \in 1..Len(corepams) : core_short(corepams[k]) = c
                     \/ FALSE
                  THEN { "prebuilt" } ELSE { })
        finding(c, m) ==
            ValidationError(74, "error",
                Msg("CPU_Cluster is referenced by both runnable and prebuilt app mappings (not allowed)",
                    << c >>, 0),
                m.xpath)
    IN  Concat([k \in 1..Len(keys) |->
            LET cluster_short == keys[k]
            IN  IF \E n \in 1..(k - 1) : keys[n] = cluster_short THEN << >>
                ELSE IF types(cluster_short) = { "runnable", "prebuilt" }
                THEN MapSeq(LAMBDA m : finding(cluster_short, m),
                            Filter(LAMBDA m : core_short(m) = cluster_short, crms))
                     \o MapSeq(LAMBDA m : finding(cluster_short, m),
                               Filter(LAMBDA m : core_short(m) = cluster_short, corepams))
                     \o MapSeq(LAMBDA m : finding(cluster_short, m),
                               Filter(LAMBDA m : cluster_level_short(m) = cluster_short, cpams))
                ELSE << >>])

\* Rule 74: no cluster is named by runnable mappings and by prebuilt-application
\* mappings.  cluster_map is filled from the Core-Runnable-Mappings, then the
\* Core-PrebuiltApplication-Mappings (both by the ClusterRef of their
\* HW-SW-MAPPING), then the Cluster-PrebuiltApplication-Mappings (by their own
\* ClusterRef, else the HW-SW-MAPPING's); its entries are reported in that order
_validate_rule_74(self) ==
    LET doc == self.doc
        parent_ref(m) == doc.mappings[m.mapping].ClusterRef
        core_short(m) == _extract_short_name_from_dest(parent_ref(m))
        cluster_ref(m) == IF strip(m.ClusterRef, BLANK) # << >> THEN strip(m.ClusterRef, BLANK)
                          ELSE strip(parent_ref(m), BLANK)
        cluster_level_short(m) == _extract_short_name_from_dest(cluster_ref(m))
        crms == Crms(doc)
        corepams == CorePams(doc)
        cpams == Filter(LAMBDA m : cluster_ref(m) # << >>, ClusterPams(doc))
        keys == MapSeq(core_short, crms) \o MapSeq(core_short, corepams)
                    \o MapSeq(cluster_level_short, cpams)
        types(c) ==
            (IF \E k \in 1..Len(crms) : core_short(crms[k]) = c THEN { "runnable" } ELSE { })
            \cup (IF \/ \E k \in 1..Len(corepams) : core_short(corepams[k]) = c
                     \/ \E k \in 1..Len(cpams) : cluster_level_short(cpams[k]) = c
                  THEN { "prebuilt" } ELSE { })
        finding(c, m) ==
            ValidationError(74, "error",
                Msg("CPU_Cluster is referenced by both runnable and prebuilt app mappings (not allowed)",
                    << c >>, 0),
                m.xpath)
    IN  Concat([k \in 1..Len(keys) |->
            LET cluster_short == keys[k]
            IN  IF \E n \in 1..(k - 1) : keys[n] = cluster_short THEN << >>
                ELSE IF types(cluster_short) = { "runnable", "prebuilt" }
                THEN MapSeq(LAMBDA m : finding(cluster_short, m),
                            Filter(LAMBDA m : core_short(m) = cluster_short, crms))
                     \o MapSeq(LAMBDA m : finding(cluster_short, m),
                               Filter(LAMBDA m : core_short(m) = cluster_short, corepams))
                     \o MapSeq(LAMBDA m : finding(cluster_short, m),
                               Filter(LAMBDA m : cluster_level_short(m) = cluster_short, cpams))
                ELSE << >>])

\* Rule 76b (reported as 76): HW-SW-MAPPING/@ClusterRef resolves to a CPU_Cluster
_validate_rule_76b(self) ==
    Concat([i \in 1..Len(self.doc.mappings) |->
        LET cluster_ref == strip(self.doc.mappings[i].ClusterRef, BLANK)
            cluster_short == _extract_short_name_from_dest(cluster_ref)
        IN  IF cluster_ref = << >> THEN << >>
            ELSE IF cluster_short \notin DOMAIN self.idx.cluster_index
            THEN << ValidationError(76, "error",
                       Msg("HW-SW-MAPPING ClusterRef does not resolve to any CPU_Cluster",
                           << cluster_ref, cluster_short >>, 0),
                       XPath("HW-SW-MAPPING", i, 0)) >>
            ELSE << >>])

\* a reference attribute that must be non-empty and resolve in an index
RefCheck(rule_number, what, ref, index, xpath) ==
    LET r == strip(ref, BLANK)
    IN  IF r = << >>
        THEN << ValidationError(rule_number, "error", Msg("has empty reference", << N(what) >>, 0),
                                xpath) >>
        ELSE IF _extract_short_name_from_dest(r) \notin DOMAIN index
        THEN << ValidationError(rule_number, "error",
                   Msg("does not resolve to existing element", << N(what), r >>, 0), xpath) >>
        ELSE << >>

\* Rule 76: Core-Runnable-Mapping/@RunnableRef resolves to a RUNNABLE-ENTITY
_validate_rule_76(self) ==
    Concat(MapSeq(LAMBDA m : RefCheck(78, "Core-Runnable-Mapping @RunnableRef", m.RunnableRef,
                                      self.idx.runnable_index, m.xpath),
                  Crms(self.doc)))

\* Rule 77: reads the CoreId of every Core-PrebuiltApplication-Mapping and
\* reports nothing (the range check is in rule 79)
_validate_rule_77(self) == << >>

\* rule 79 that accepts a CoreId equal to CoresPerCluster
_validate_rule_79_inclusive(self) ==
    LET doc == self.doc
        clusters == Clusters(doc)
    IN  Concat(MapSeq(LAMBDA mapping :
            IF mapping.CoreId.kind # "int" THEN << >>
            ELSE
            LET core_id == mapping.CoreId.v
                cluster_name == _extract_short_name_from_dest(doc.mappings[mapping.mapping].ClusterRef)
            IN  IF cluster_name \notin DOMAIN self.idx.cluster_index THEN << >>
                ELSE
                LET cluster_elem == clusters[CHOOSE c \in 1..Len(clusters) :
                                        clusters[c].xpath = self.idx.cluster_index[cluster_name]]
                    cores_per_cluster == cluster_elem.CoresPerCluster
                IN  IF cores_per_cluster.kind = "int" /\ core_id > cores_per_cluster.v
                    THEN << ValidationError(79, "error",
                               Msg("Core-PrebuiltApplication-Mapping CoreId out of range for cluster",
                                   << cluster_name, N(ToString(cores_per_cluster.v)) >>, core_id),
                               mapping.xpath) >>
                    ELSE << >>,
            CorePams(doc)))

\* Rule 79: the CoreId of a Core-PrebuiltApplication-Mapping is below the
\* CoresPerCluster of the cluster its HW-SW-MAPPING names; a CoreId that is
\* empty or no integer, a cluster that is not in the index, a cluster without
\* (integer) CoresPerCluster are passed over
_validate_rule_79(self) ==
    LET doc == self.doc
        clusters == Clusters(doc)
    IN  Concat(MapSeq(LAMBDA mapping :
            IF mapping.CoreId.kind # "int" THEN << >>
            ELSE
            LET core_id == mapping.CoreId.v
                cluster_name == _extract_short_name_from_dest(doc.mappings[mapping.mapping].ClusterRef)
            IN  IF cluster_name \notin DOMAIN self.idx.cluster_index THEN << >>
                ELSE
                LET cluster_elem == clusters[CHOOSE c \in 1..Len(clusters) :
                                        clusters[c].xpath = self.idx.cluster_index[cluster_name]]
                    cores_per_cluster == cluster_elem.CoresPerCluster
                IN  IF cores_per_cluster.kind = "int" /\ core_id >= cores_per_cluster.v
                    THEN << ValidationError(79, "error",
                               Msg("Core-PrebuiltApplication-Mapping CoreId out of range for cluster",
                                   << cluster_name, N(ToString(cores_per_cluster.v)) >>, core_id),
                               mapping.xpath) >>
                    ELSE << >>,
            CorePams(doc)))

\* Rule 78: Cluster-PrebuiltApplication-Mapping references an existing prebuilt app
_validate_rule_78(self) ==
    Concat(MapSeq(LAMBDA m : RefCheck(78, "Cluster-PrebuiltApplication-Mapping @PrebuiltApplicationRef",
                                      m.PrebuiltApplicationRef, self.idx.prebuilt_app_index, m.xpath),
                  ClusterPams(self.doc)))

\* the local SHORT-NAME index of PRE-BUILT-APPLICATION that rules 80 and 81 build
prebuilt_index(doc) ==
    IndexOf(Named("PRE-BUILT-APPLICATION", [i \in 1..Len(doc.apps) |-> doc.apps[i].name]))

\* Rule 80: Core-PrebuiltApplication-Mapping references an existing prebuilt app
_validate_rule_80_prebuilt(self) ==
    Concat(MapSeq(LAMBDA m : RefCheck(80, "Core-PrebuiltApplication-Mapping @PrebuiltApplicationRef",
                                      m.PrebuiltApplicationRef, prebuilt_index(self.doc), m.xpath),
                  CorePams(self.doc)))

\* Rule 81: Cluster-PrebuiltApplication-Mapping references an existing prebuilt app
_validate_rule_81_prebuilt(self) ==
    Concat(MapSeq(LAMBDA m : RefCheck(81, "Cluster-PrebuiltApplication-Mapping @PrebuiltApplicationRef",
                                      m.PrebuiltApplicationRef, prebuilt_index(self.doc), m.xpath),
                  ClusterPams(self.doc)))

-----------------------------------------------------------------------------
(* Rules that iterate a Python set.  The iteration order of a set of        *)
(* strings follows the process's hash seed, that of a set of elements the   *)
(* objects' addresses: every order is possible, and the rule yields the set *)
(* of finding lists it can append.                                          *)

RECURSIVE CatAll(_)
CatAll(sets) == IF sets = << >> THEN { << >> } ELSE Cat(Head(sets), CatAll(Tail(sets)))

\* the names of the named ports that carry a TREF equal to sri_path, in document order
PortNamesOn(ports, sri_path) ==
    MapSeq(LAMBDA p : p.name,
           Filter(LAMBDA p : p.name # << >> /\ p.tref # << >> /\ p.tref = sri_path, ports))

PortSris(ports) == { ports[k].tref : k \in { m \in 1..Len(ports) :
                                              ports[m].name # << >> /\ ports[m].tref # << >> } }

\* Rule 60: no hardware block provides and requires the same interface; the
\* shared interfaces are reported in the iteration order of a set of strings
_validate_rule_60(self) ==
    Concat([k \in 1..Len(self.doc.hwips) |->
        LET hwip == self.doc.hwips[k]
            shared_sris == PortSris(hwip.pports) \cap PortSris(hwip.rports)
        IN  IF hwip.name = << >> THEN << >>
            ELSE MapSeq(LAMBDA sri_path :
                       ValidationError(60, "error",
                           Msg("HWIP violates Rule 60",
                               << hwip.name >> \o PortNamesOn(hwip.pports, sri_path)
                                   \o << N("|") >> \o PortNamesOn(hwip.rports, sri_path)
                                   \o << sri_path >>, 0),
                           XPath("Generic_Hardware", k, 0)),
                       SetOrder(shared_sris, self.hashseed))])

\* Rule 32, one INTERFACE-TREF of an Eth-Switch, the components using it taken in swc_order
Rule32ForRef(self, sri_ref, swc_order) ==
    LET doc == self.doc
        sri_name == _extract_short_name_from_dest(sri_ref)
        clusters == Clusters(doc)
    IN  Concat([i \in 1..Len(doc.mappings) |->
            LET cluster_name == Last(split(doc.mappings[i].ClusterRef, << >>))
                found == { c \in 1..Len(clusters) :
                             clusters[c].cortexA53 /\ clusters[c].name = cluster_name }
            IN  IF found = { } THEN << >>
                ELSE
                LET first == CHOOSE c \in found : \A d \in found : c <= d
                    soc == doc.socs[clusters[first].soc]
                    soc_name == IF soc.name # << >> THEN soc.name ELSE N("(unknown)")
                    mode == IF soc.ethMode = "nomode" THEN "simulated" ELSE soc.ethMode
                IN  Concat([j \in 1..Len(doc.mappings[i].crms) |->
                        Concat(MapSeq(LAMBDA w :
                            LET swc_name == IF doc.swcs[w].name # << >>
                                            THEN doc.swcs[w].name ELSE N("(unknown)")
                            IN  IF /\ Contains(doc.mappings[i].crms[j],
                                               << SLASH >> \o swc_name \o << SLASH >>)
                                   /\ soc.ethMode # "absent"
                                   /\ mode # "simulated"
                                THEN << ValidationError(32, "error",
                                           Msg("Rule 32 violated",
                                               << soc_name, swc_name, sri_name, N(mode) >>, 0),
                                           XPath("Core-Runnable-Mapping", i, j)) >>
                                ELSE << >>,
                            swc_order))])])

\* Rule 32: a SoC running a component on an Ethernet interface is 'simulated'.
\* eth_sri_refs is a set of strings; swcs is a set of elements, hashed by their
\* address, so its iteration order can be any in any run
_validate_rule_32(self) ==
    LET doc == self.doc
        eth_sri_refs == UNION { Range(doc.ethSwitches[k]) : k \in 1..Len(doc.ethSwitches) }
        swcs(sri_ref) == { w \in 1..Len(doc.swcs) :
                             \/ \E q \in 1..Len(doc.swcs[w].pports) :
                                    doc.swcs[w].pports[q].tref = sri_ref
                             \/ \E q \in 1..Len(doc.swcs[w].rports) :
                                    doc.swcs[w].rports[q].tref = sri_ref }
        order == SetOrder(eth_sri_refs, self.hashseed)
    IN  CatAll([k \in 1..Len(order) |->
            { Rule32ForRef(self, order[k], swc_order) :
                  swc_order \in Orderings(swcs(order[k])) }])

\* validate_all: the rule calls in the order of the code (of the calls in the
\* code, the ones modelled here)
RuleOrder ==
    << "7", "6", "9", "10", "14", "16", "28", "22", "23", "24", "25", "32", "76b", "4", "5",
       "40", "41", "44", "46", "52", "56", "60", "63", "70", "74", "76", "77", "79", "78", "80_prebuilt", "81_prebuilt", "83",
       "84", "85", "90" >>

\* the finding lists a call of self._validate_rule_<rule>() can append
Appended(rule, self) ==
    CASE rule = "7" -> { _validate_rule_7(self) }
      [] rule = "16" -> { _validate_rule_16(self) }
      [] rule = "28" -> { _validate_rule_28(self) }
      [] rule = "44" -> { _validate_rule_44(self) }
      [] rule = "46" -> { _validate_rule_46(self) }
      [] rule = "52" -> { _validate_rule_52(self) }
      [] rule = "56" -> { _validate_rule_56(self) }
      [] rule = "70" -> { _validate_rule_70(self) }
      [] rule = "6" -> { _validate_rule_6(self) }
      [] rule = "9" -> { _validate_rule_9(self) }
      [] rule = "10" -> { _validate_rule_10(self) }
      [] rule = "14" -> { _validate_rule_14(self) }
      [] rule = "22" -> { _validate_rule_22(self) }
      [] rule = "23" -> { _validate_rule_23(self) }
      [] rule = "24" -> { _validate_rule_24(self) }
      [] rule = "25" -> { _validate_rule_25(self) }
      [] rule = "32" -> _validate_rule_32(self)
      [] rule = "76b" -> { _validate_rule_76b(self) }
      [] rule = "4" -> { _validate_rule_4(self) }
      [] rule = "5" -> { _validate_rule_5(self) }
      [] rule = "41" -> { _validate_rule_41(self) }
      [] rule = "60" -> { _validate_rule_60(self) }
      [] rule = "63" -> { _validate_rule_63(self) }
      [] rule = "74" -> { _validate_rule_74(self) }
      [] rule = "76" -> { _validate_rule_76(self) }
      [] rule = "77" -> { _validate_rule_77(self) }
      [] rule = "79" -> { _validate_rule_79(self) }
      [] rule = "78" -> { _validate_rule_78(self) }
      [] rule = "80_prebuilt" -> { _validate_rule_80_prebuilt(self) }
      [] rule = "81_prebuilt" -> { _validate_rule_81_prebuilt(self) }
      [] rule = "83" -> { _validate_rule_83(self) }
      [] rule = "84" -> { _validate_rule_84(self) }
      [] rule = "85" -> { _validate_rule_85(self) }
      [] rule = "90" -> { _validate_rule_90(self) }
      [] OTHER -> { << >> }

\* self.errors after the call of one rule, errs being self.errors before it
Step(rule, errs, self) ==
    IF rule = "40" THEN { _validate_rule_40(errs, self) }
    ELSE { errs \o a : a \in Appended(rule, self) }

\* self.errors after the rule calls number k and following
RECURSIVE RunFrom(_, _, _)
RunFrom(k, errs, self) ==
    IF k > Len(RuleOrder) THEN { errs }
    ELSE UNION { RunFrom(k + 1, e, self) : e \in Step(RuleOrder[k], errs, self) }

\* validate_all: self.errors = [], the rule calls, return self.errors; the set
\* of finding lists a run can return
validate_all(self) == RunFrom(1, << >>, self)

-----------------------------------------------------------------------------
(* The external engines *)

\* what xmlschema does with a document: is_valid() true, false with n errors
\* listed by iter_errors(), or an exception
XsdOutcomes(doc) ==
    (IF doc.wellFormed THEN { [kind |-> "valid", n |-> 0] } ELSE { })
        \cup { [kind |-> "invalid", n |-> n] : n \in 0..MaxToolMsgs }
        \cup { [kind |-> "raise", n |-> 0] }

\* the tool's process: returncode and what its stdout + stderr holds
Output(returncode, pass, fail, bullets, failLines, interesting) ==
    [returncode |-> returncode, passed_tokens |-> pass, failed_tokens |-> fail,
     bullets |-> bullets, failLines |-> failLines, interesting |-> interesting]

\* schematronValidator.py run on (schematron file, target); lxml's verdict on a
\* well-formed document is schValid, with `bullets` failed-assert lines printed.
\* The lines about a file start with its name f: fnameFailed says that the
\* name holds "FAILED"
schematronValidator(schFileOk, doc, schValid, bullets, fnameFailed) ==
    IF ~schFileOk THEN Output(1, FALSE, FALSE, 0, 0, 1)         \* "Schematron file not found"
    ELSE IF doc.isDir THEN Output(0, FALSE, FALSE, 0, 0, 1)     \* validate_directory, no file
    ELSE IF ~doc.wellFormed THEN Output(1, FALSE, fnameFailed, 0, 0, 1) \* "f: XML parse error"
    ELSE IF schValid
    THEN Output(0, TRUE, fnameFailed, 0, 0, IF fnameFailed THEN 1 ELSE 0)
                                                                \* "[PASS] f: Schematron PASSED"
    ELSE Output(2, FALSE, TRUE, bullets, 1, 1)                  \* "[FAIL] f: Schematron FAILED"

\* subprocess.run(cmd, timeout=60): the process ends, the timeout expires, or
\* starting it raises
SchematronRuns(schFileOk, doc) ==
    { [kind |-> "timeout", out |-> Output(0, FALSE, FALSE, 0, 0, 0)],
      [kind |-> "raise", out |-> Output(0, FALSE, FALSE, 0, 0, 0)] }
    \cup { [kind |-> "exit", out |-> schematronValidator(schFileOk, doc, v, b, f)] :
              v \in BOOLEAN, b \in 0..MaxToolMsgs, f \in BOOLEAN }

NoTool == [xsd |-> [kind |-> "none", n |-> 0],
           sch |-> [kind |-> "none", out |-> Output(0, FALSE, FALSE, 0, 0, 0)]]

-----------------------------------------------------------------------------
(* ValidationResult and the three stages.  A stage yields                   *)
(* [passed, errors, exc]: its return tuple, or exc when an exception leaves *)
(* it.                                                                      *)

ValidationResult ==
    [xsd_passed |-> FALSE, xsd_errors |-> << >>,
     schematron_passed |-> FALSE, schematron_errors |-> << >>,
     python_passed |-> FALSE, python_errors |-> << >>]

\* is_valid() that leaves the rule-engine stage out of the conjunction
is_valid_two_stages(r) == r.xsd_passed /\ r.schematron_passed

is_valid(r) == r.xsd_passed /\ r.schematron_passed /\ r.python_passed

total_errors(r) == Len(r.xsd_errors) + Len(r.schematron_errors) + Len(r.python_errors)

Return(passed, errs) == [passed |-> passed, errors |-> errs, exc |-> FALSE]
Raise == [passed |-> FALSE, errors |-> << >>, exc |-> TRUE]

Texts(id, n) == [k \in 1..n |-> [Text(id) EXCEPT !.text.num = k]]

\* _validate_xsd that reports a stage without a schema as not passed
_validate_xsd_strict(schema, x) ==
    IF schema = "None" THEN Return(FALSE, << >>)
    ELSE IF x.kind = "raise" THEN Return(FALSE, << Text("XSD validation error") >>)
    ELSE IF x.kind = "valid" THEN Return(TRUE, << >>)
    ELSE Return(FALSE, IF x.n > 0 THEN Texts("At path: reason", x.n)
                       ELSE << Text("Unknown XSD validation error") >>)

_validate_xsd(schema, x) ==
    IF schema = "None" THEN Return(TRUE, << >>)
    ELSE IF x.kind = "raise" THEN Return(FALSE, << Text("XSD validation error") >>)
    ELSE IF x.kind = "valid" THEN Return(TRUE, << >>)
    ELSE Return(FALSE, IF x.n > 0 THEN Texts("At path: reason", x.n)
                       ELSE << Text("Unknown XSD validation error") >>)

\* _validate_schematron without its except clauses
_validate_schematron_uncaught(run) ==
    IF run.kind \in { "timeout", "raise" } THEN Raise
    ELSE
    LET o == run.out
    IN  IF o.returncode = 0 /\ o.passed_tokens /\ ~o.failed_tokens THEN Return(TRUE, << >>)
        ELSE IF o.returncode # 0 \/ o.failed_tokens
        THEN Return(FALSE,
                 IF o.bullets > 0 THEN Texts("bullet line", o.bullets)
                 ELSE IF o.failLines > 0 THEN Texts("[FAIL] line", o.failLines)
                 ELSE IF o.interesting > 0 THEN Texts("interesting line", o.interesting)
                 ELSE << Text("Schematron validation failed (no parsable messages)") >>)
        ELSE Return(TRUE, << >>)

\* _validate_schematron that goes by the return code alone
_validate_schematron_by_returncode(run) ==
    IF run.kind = "timeout" THEN Return(FALSE, << Text("Schematron validation timed out") >>)
    ELSE IF run.kind = "raise" THEN Return(FALSE, << Text("Schematron validation error") >>)
    ELSE
    LET o == run.out
    IN  IF o.returncode = 0 THEN Return(TRUE, << >>)
        ELSE Return(FALSE,
                 IF o.bullets > 0 THEN Texts("bullet line", o.bullets)
                 ELSE IF o.failLines > 0 THEN Texts("[FAIL] line", o.failLines)
                 ELSE IF o.interesting > 0 THEN Texts("interesting line", o.interesting)
                 ELSE << Text("Schematron validation failed (no parsable messages)") >>)

_validate_schematron(run) ==
    IF run.kind = "timeout" THEN Return(FALSE, << Text("Schematron validation timed out") >>)
    ELSE IF run.kind = "raise" THEN Return(FALSE, << Text("Schematron validation error") >>)
    ELSE
    LET o == run.out
    IN  IF o.returncode = 0 /\ o.passed_tokens /\ ~o.failed_tokens THEN Return(TRUE, << >>)
        ELSE IF o.returncode # 0 \/ o.failed_tokens
        THEN Return(FALSE,
                 IF o.bullets > 0 THEN Texts("bullet line", o.bullets)
                 ELSE IF o.failLines > 0 THEN Texts("[FAIL] line", o.failLines)
                 ELSE IF o.interesting > 0 THEN Texts("interesting line", o.interesting)
                 ELSE << Text("Schematron validation failed (no parsable messages)") >>)
        ELSE Return(TRUE, << >>)

\* validator = PythonLogicalValidator(xml_file, check_filesystem): a new object,
\* its indices built by __init__
PythonLogicalValidator(doc) == _build_indices(NoIndices, doc)

\* _validate_python without its except clause
_validate_python_uncaught(doc, errs) ==
    IF ~doc.wellFormed THEN Raise
    ELSE IF errs # << >> THEN Return(FALSE, MapSeq(repr, errs))
    ELSE Return(TRUE, << >>)

\* _validate_python that fails the stage on findings of severity "error" only
_validate_python_errors_only(doc, errs) ==
    IF ~doc.wellFormed THEN Return(FALSE, << Text("Python validation error") >>)
    ELSE IF \E k \in 1..Len(errs) : errs[k].severity = "error"
    THEN Return(FALSE, MapSeq(repr, errs))
    ELSE Return(TRUE, << >>)

\* _validate_python, given the findings validate_all returned (the parser
\* raises on a document that is not well-formed)
_validate_python(doc, errs) ==
    IF ~doc.wellFormed THEN Return(FALSE, << Text("Python validation error") >>)
    ELSE IF errs # << >> THEN Return(FALSE, MapSeq(repr, errs))
    ELSE Return(TRUE, << >>)

\* validate_file that returns at the first failed stage
AfterStage_short_circuit(stage, passed) ==
    IF ~passed THEN "done"
    ELSE CASE stage = "xsd" -> "schematron"
           [] stage = "schematron" -> "python"
           [] stage = "python" -> "done"

\* validate_file: the stage that follows `stage`, whose outcome was `passed`
AfterStage(stage, passed) ==
    CASE stage = "xsd" -> "schematron"
      [] stage = "schematron" -> "python"
      [] stage = "python" -> "done"

-----------------------------------------------------------------------------
(* Construction *)

\* the default of ValidationPipeline.__init__'s check_filesystem parameter
DefaultCheckFilesystem == TRUE

\* ValidationPipeline.__init__, the schema load: None when the xmlschema
\* library is missing or the schema file cannot be loaded (a warning is printed)
LoadSchema(env) ==
    IF ~env.xmlschema THEN "None"
    ELSE IF ~env.xsdFile THEN "None"
    ELSE "loaded"

\* __init__ that raises when the schema or the schematron file is missing
InitRaises_on_missing_file(env) == ~env.xsdFile \/ ~env.schFile

\* ValidationPipeline.__init__ raises to its caller
InitRaises(env) == FALSE

\* main: the flag from the command line
main_check_fs(argv) ==
    IF "--no-check-filesystem" \in argv THEN FALSE
    ELSE IF "--check-filesystem" \in argv THEN TRUE
    ELSE TRUE

NoRun == [doc |-> 0, errors |-> << >>, python_passed |-> FALSE, python_errors |-> << >>]

Init ==
    /\ environ \in [xmlschema : BOOLEAN, xsdFile : BOOLEAN, schFile : BOOLEAN]
    /\ pstate = "new"
    /\ flagSet = FALSE
    /\ xsd_schema = "None"
    /\ check_filesystem = FALSE
    /\ pc = "idle"
    /\ xml_file = 0
    /\ result = ValidationResult
    /\ stageLog = << >>
    /\ raised = FALSE
    /\ tool = NoTool
    /\ indices = NoIndices
    /\ errors = << >>
    /\ firstRun = NoRun
    /\ hashseed \in HashSeeds
    /\ rule_pos = 0
    /\ dest_in = << >>
    /\ normalized_out = << >>
    /\ short_name_out = << >>
    /\ norm_pc = "input"
    /\ GenIdle

\* pipeline = ValidationPipeline(...) with check_filesystem given ("True",
\* "False") or left out ("unset")
ValidationPipeline_init(arg) ==
    /\ pstate = "new"
    /\ IF InitRaises(environ)
       THEN /\ pstate' = "failed"
            /\ UNCHANGED << xsd_schema, check_filesystem, flagSet >>
       ELSE /\ pstate' = "ready"
            /\ flagSet' = (arg # "unset")
            /\ check_filesystem' = (IF arg = "unset" THEN DefaultCheckFilesystem
                                    ELSE arg = "True")
            /\ xsd_schema' = LoadSchema(environ)
    /\ UNCHANGED << environ, pc, xml_file, result, stageLog, raised, tool, indices,
                    errors, firstRun, hashseed, rule_pos,
                    norm_vars, gen_vars >>

\* python validation_pipeline.py <target> [flags]
main(argv) ==
    /\ pstate = "new"
    /\ IF InitRaises(environ)
       THEN /\ pstate' = "failed"
            /\ UNCHANGED << xsd_schema, check_filesystem, flagSet >>
       ELSE /\ pstate' = "ready"
            /\ flagSet' = (argv # { })
            /\ check_filesystem' = main_check_fs(argv)
            /\ xsd_schema' = LoadSchema(environ)
    /\ UNCHANGED << environ, pc, xml_file, result, stageLog, raised, tool, indices,
                    errors, firstRun, hashseed, rule_pos,
                    norm_vars, gen_vars >>

-----------------------------------------------------------------------------
(* ValidationPipeline.validate_file, one action per statement group *)

Doc == Docs[xml_file]

\* result = ValidationResult(xml_file); the validator object of an earlier
\* call is gone
validate_file(d) ==
    /\ pstate = "ready"
    /\ pc \in { "idle", "done" }
    /\ xml_file' = d
    /\ result' = ValidationResult
    /\ stageLog' = << >>
    /\ tool' = NoTool
    /\ pc' = "xsd"
    /\ indices' = NoIndices
    /\ errors' = << >>
    /\ UNCHANGED << environ, pstate, flagSet, xsd_schema, check_filesystem, raised, firstRun,
                    hashseed, rule_pos,
                    norm_vars, gen_vars >>

\* Stage 1: result.xsd_passed, result.xsd_errors = self._validate_xsd(xml_file)
XsdStage ==
    /\ pc = "xsd"
    /\ \E x \in (IF xsd_schema = "None" THEN { NoTool.xsd } ELSE XsdOutcomes(Doc)) :
        LET r == _validate_xsd(xsd_schema, x)
        IN  /\ tool' = [tool EXCEPT !.xsd = x]
            /\ stageLog' = Append(stageLog, "xsd")
            /\ IF r.exc
               THEN /\ raised' = TRUE
                    /\ pc' = "aborted"
                    /\ UNCHANGED result
               ELSE /\ result' = [result EXCEPT !.xsd_passed = r.passed, !.xsd_errors = r.errors]
                    /\ pc' = AfterStage("xsd", r.passed)
                    /\ UNCHANGED raised
    /\ UNCHANGED << environ, pstate, flagSet, xsd_schema, check_filesystem, xml_file,
                    indices, errors, firstRun, hashseed, rule_pos,
                    norm_vars, gen_vars >>

\* Stage 2: result.schematron_passed, result.schematron_errors = self._validate_schematron(xml_file)
SchematronStage ==
    /\ pc = "schematron"
    /\ \E run \in SchematronRuns(environ.schFile, Doc) :
        LET r == _validate_schematron(run)
        IN  /\ tool' = [tool EXCEPT !.sch = run]
            /\ stageLog' = Append(stageLog, "schematron")
            /\ IF r.exc
               THEN /\ raised' = TRUE
                    /\ pc' = "aborted"
                    /\ UNCHANGED result
               ELSE /\ result' = [result EXCEPT !.schematron_passed = r.passed,
                                                !.schematron_errors = r.errors]
                    /\ pc' = AfterStage("schematron", r.passed)
                    /\ UNCHANGED raised
    /\ UNCHANGED << environ, pstate, flagSet, xsd_schema, check_filesystem, xml_file,
                    indices, errors, firstRun, hashseed, rule_pos,
                    norm_vars, gen_vars >>

\* python_logical_validations.validate_file(xml_file, check_filesystem) inside
\* _validate_python: the validator is built (no validator exists when the parse
\* in __init__ raises), validate_all runs, and the stage's return value is made;
\* ok is the stage outcome wanted in the next state
RunPython(d, ok(_)) ==
    LET doc == Docs[d]
        idx == IF doc.wellFormed THEN PythonLogicalValidator(doc) ELSE NoIndices
    IN  /\ indices' = idx
        /\ \E errs \in (IF doc.wellFormed
                        THEN validate_all(Self(doc, idx, check_filesystem, hashseed))
                        ELSE { << >> }) :
                /\ errors' = errs
                /\ ok(_validate_python(doc, errs))

\* Stage 3: result.python_passed, result.python_errors = self._validate_python(xml_file),
\* then python_passed forced to False when python_errors is not empty
PythonStage ==
    /\ pc = "python"
    /\ stageLog' = Append(stageLog, "python")
    /\ RunPython(xml_file, LAMBDA r :
           IF r.exc
           THEN /\ raised' = TRUE
                /\ pc' = "aborted"
                /\ UNCHANGED result
           ELSE /\ result' = [result EXCEPT
                       !.python_passed = IF r.errors # << >> THEN FALSE ELSE r.passed,
                       !.python_errors = r.errors]
                /\ pc' = AfterStage("python", r.passed)
                /\ UNCHANGED raised)
    /\ UNCHANGED << environ, pstate, flagSet, xsd_schema, check_filesystem, xml_file,
                    tool, firstRun, hashseed, rule_pos,
                    norm_vars, gen_vars >>

Next ==
    \/ \E arg \in { "unset", "True", "False" } : ValidationPipeline_init(arg)
    \/ \E argv \in SUBSET { "--check-filesystem", "--no-check-filesystem" } : main(argv)
    \/ \E d \in DocIds : validate_file(d)
    \/ XsdStage
    \/ SchematronStage
    \/ PythonStage

Spec == Init /\ [][Next]_vars

-----------------------------------------------------------------------------
(* One pipeline validating documents one after the other, reduced to its    *)
(* rule-engine stage (the only stage that builds per-document state).       *)

InitSeq ==
    /\ environ = [xmlschema |-> TRUE, xsdFile |-> TRUE, schFile |-> TRUE]
    /\ pstate = "ready"
    /\ flagSet \in BOOLEAN
    /\ xsd_schema = "loaded"
    /\ check_filesystem \in (IF flagSet THEN BOOLEAN ELSE { DefaultCheckFilesystem })
    /\ pc = "idle"
    /\ xml_file = 0
    /\ result = ValidationResult
    /\ stageLog = << >>
    /\ raised = FALSE
    /\ tool = NoTool
    /\ indices = NoIndices
    /\ errors = << >>
    /\ firstRun = NoRun
    /\ hashseed \in HashSeeds
    /\ rule_pos = 0
    /\ dest_in = << >>
    /\ normalized_out = << >>
    /\ short_name_out = << >>
    /\ norm_pc = "input"
    /\ GenIdle

\* the documents the sequences are made of
SeqDocs ==
    { DocClean, DocMalformed, DocBadRunnableRef, DocHwipShared, DocHwipOne, DocEth,
      DocEthNested, DocAppMissing, DocAppNotExec, DocOps, DocRunnableTwice, DocToolchains }

SeqDocIds == { d \in DocIds : Docs[d] \in SeqDocs }

\* self._validate_python(d) of the next document; the first call's outcome is kept
NextDocument(d) ==
    /\ pc \in { "idle", "done" }
    /\ xml_file' = d
    /\ RunPython(d, LAMBDA r :
           /\ result' = [ValidationResult EXCEPT
                  !.python_passed = IF r.errors # << >> THEN FALSE ELSE r.passed,
                  !.python_errors = r.errors]
           /\ pc' = IF r.exc THEN "aborted" ELSE "done"
           /\ raised' = r.exc
           /\ firstRun' = IF firstRun.doc = 0
                          THEN [doc |-> d, errors |-> errors',
                                python_passed |-> result'.python_passed,
                                python_errors |-> r.errors]
                          ELSE firstRun)
    /\ UNCHANGED << environ, pstate, flagSet, xsd_schema, check_filesystem, stageLog, tool,
                    hashseed, rule_pos,
                    norm_vars, gen_vars >>

\* the program is started again, with the same files and flags: a new
\* interpreter, a new hash seed
NewProcess ==
    /\ pc = "done"
    /\ hashseed' \in HashSeeds \ { hashseed }
    /\ pc' = "idle"
    /\ xml_file' = 0
    /\ result' = ValidationResult
    /\ indices' = NoIndices
    /\ errors' = << >>
    /\ UNCHANGED << environ, pstate, flagSet, xsd_schema, check_filesystem, stageLog, tool,
                    raised, firstRun, rule_pos,
                    norm_vars, gen_vars >>

NextSeq ==
    \/ \E d \in SeqDocIds : NextDocument(d)
    \/ NewProcess

SpecSeq == InitSeq /\ [][NextSeq]_vars

-----------------------------------------------------------------------------
(* One PythonLogicalValidator, validate_all followed rule call by rule call *)

InitRules ==
    /\ environ = [xmlschema |-> TRUE, xsdFile |-> TRUE, schFile |-> TRUE]
    /\ pstate = "ready"
    /\ flagSet = TRUE
    /\ xsd_schema = "loaded"
    /\ check_filesystem \in BOOLEAN
    /\ pc = "idle"
    /\ xml_file = 0
    /\ result = ValidationResult
    /\ stageLog = << >>
    /\ raised = FALSE
    /\ tool = NoTool
    /\ indices = NoIndices
    /\ errors = << >>
    /\ firstRun = NoRun
    /\ hashseed \in HashSeeds
    /\ rule_pos = 0
    /\ dest_in = << >>
    /\ normalized_out = << >>
    /\ short_name_out = << >>
    /\ norm_pc = "input"
    /\ GenIdle

\* validator = PythonLogicalValidator(d, check_filesystem); validator.validate_all()
\* up to its first rule call: self.errors = []
validate_all_begin(d) ==
    /\ pc \in { "idle", "returned" }
    /\ Docs[d].wellFormed
    /\ xml_file' = d
    /\ indices' = PythonLogicalValidator(Docs[d])
    /\ errors' = << >>
    /\ rule_pos' = 0
    /\ pc' = "rules"
    /\ UNCHANGED << environ, pstate, flagSet, xsd_schema, check_filesystem, result, stageLog,
                    raised, tool, firstRun, hashseed,
                    norm_vars, gen_vars >>

\* the next self._validate_rule_...() call of validate_all
RuleCall ==
    /\ pc = "rules"
    /\ rule_pos < Len(RuleOrder)
    /\ errors' \in Step(RuleOrder[rule_pos + 1], errors,
                        Self(Doc, indices, check_filesystem, hashseed))
    /\ rule_pos' = rule_pos + 1
    /\ UNCHANGED << environ, pstate, flagSet, xsd_schema, check_filesystem, pc, xml_file,
                    result, stageLog, raised, tool, indices, firstRun, hashseed,
                    norm_vars, gen_vars >>

\* return self.errors
validate_all_return ==
    /\ pc = "rules"
    /\ rule_pos = Len(RuleOrder)
    /\ pc' = "returned"
    /\ UNCHANGED << environ, pstate, flagSet, xsd_schema, check_filesystem, xml_file,
                    result, stageLog, raised, tool, indices, errors, firstRun, hashseed,
                    rule_pos,
                    norm_vars, gen_vars >>

NextRules ==
    \/ \E d \in DocIds : validate_all_begin(d)
    \/ RuleCall
    \/ validate_all_return

SpecRules == InitRules /\ [][NextRules]_vars

-----------------------------------------------------------------------------
(* The path helpers alone: a DEST value is normalized and its short name   *)
(* extracted                                                               *)

DestSymbols == { SLASH, BLANK, "a", "b" }

RECURSIVE Strings(_)
Strings(n) ==
    IF n = 0 THEN { << >> }
    ELSE Strings(n - 1) \cup { Append(s, c) : s \in Strings(n - 1), c \in DestSymbols }

Dests == Strings(MaxDestLen)

InitNorm ==
    /\ environ = [xmlschema |-> TRUE, xsdFile |-> TRUE, schFile |-> TRUE]
    /\ pstate = "ready"
    /\ flagSet = TRUE
    /\ xsd_schema = "loaded"
    /\ check_filesystem = FALSE
    /\ pc = "idle"
    /\ xml_file = 0
    /\ result = ValidationResult
    /\ stageLog = << >>
    /\ raised = FALSE
    /\ tool = NoTool
    /\ indices = NoIndices
    /\ errors = << >>
    /\ firstRun = NoRun
    /\ hashseed = "seed_a"
    /\ rule_pos = 0
    /\ dest_in \in Dests
    /\ normalized_out = << >>
    /\ short_name_out = << >>
    /\ norm_pc = "input"
    /\ GenIdle

pipeline_vars ==
    << environ, pstate, flagSet, xsd_schema, check_filesystem, pc, xml_file, result,
       stageLog, raised, tool, indices, errors, firstRun, hashseed, rule_pos >>

\* normalized = self._normalize_dest_path(dest)
NormalizeCall ==
    /\ norm_pc = "input"
    /\ normalized_out' = _normalize_dest_path(dest_in)
    /\ norm_pc' = "normalized"
    /\ UNCHANGED << pipeline_vars, gen_vars, dest_in, short_name_out >>

\* short_name = self._extract_short_name_from_dest(dest)
ExtractCall ==
    /\ norm_pc = "normalized"
    /\ short_name_out' = _extract_short_name_from_dest(dest_in)
    /\ norm_pc' = "extracted"
    /\ UNCHANGED << pipeline_vars, gen_vars, dest_in, normalized_out >>

NextNorm ==
    \/ NormalizeCall
    \/ ExtractCall

SpecNorm == InitNorm /\ [][NextNorm]_vars

-----------------------------------------------------------------------------
(* Studio_CLI.generate_category_data: the generation loop and the insert of *)
(* what it collected.  The generated XML is one of a few documents; its     *)
(* validation is the pipeline above, run on a temporary file.               *)

\* the documents generate_prompt_and_xml can return
GenDocs ==
    { d \in DocIds : Docs[d] \in { DocClean, DocMalformed, DocHwipOne, DocAppNotExec } }

\* the factor of max_attempts = count * 50
AttemptsPerExample == 50

max_attempts(n) == n * AttemptsPerExample

\* validate_xml_schema: the "valid" entries its result can hold.  With the
\* module's SCHEMA the content is parsed and validated; without it the
\* content passes when it holds "<" and ">", as every generated text does
validate_xml_schema(env, doc) ==
    IF LoadSchema(env) = "loaded"
    THEN { x.kind = "valid" : x \in XsdOutcomes(doc) }
    ELSE { TRUE }

\* pipeline.validate_file(tmp_path) of a new ValidationPipeline(check_filesystem=True):
\* the results it can return
ValidateFileResults(env, doc, seed) ==
    LET xsd == { _validate_xsd(LoadSchema(env), x) : x \in XsdOutcomes(doc) }
        sch == { _validate_schematron(run) : run \in SchematronRuns(env.schFile, doc) }
        findings == IF doc.wellFormed
                    THEN validate_all(Self(doc, PythonLogicalValidator(doc), TRUE, seed))
                    ELSE { << >> }
        py == { _validate_python(doc, errs) : errs \in findings }
    IN  { [xsd_passed |-> x.passed, xsd_errors |-> x.errors,
           schematron_passed |-> s.passed, schematron_errors |-> s.errors,
           python_passed |-> IF p.errors # << >> THEN FALSE ELSE p.passed,
           python_errors |-> p.errors] : x \in xsd, s \in sch, p \in py }

\* validate_xml_logical: the "valid" entries its result can hold; False when
\* the pipeline cannot be imported or anything raises
validate_xml_logical(env, doc, seed) ==
    { is_valid(r) : r \in ValidateFileResults(env, doc, seed) } \cup { FALSE }

\* validate_xml_complete that goes by the schema result alone
validate_xml_complete_schema_only(schema_result, logical_result) ==
    [valid |-> schema_result, schema |-> schema_result, logical |-> logical_result]

\* validate_xml_complete, given the "valid" entries of its two results
validate_xml_complete(schema_result, logical_result) ==
    [valid |-> schema_result /\ logical_result,
     schema |-> schema_result, logical |-> logical_result]

\* ValidationService.is_valid
val_service_is_valid(validation_result) == validation_result.valid

\* main with --category and --count: validate_args has let count >= 1 through
InitGen ==
    /\ environ \in [xmlschema : BOOLEAN, xsdFile : BOOLEAN, schFile : BOOLEAN]
    /\ pstate = "new"
    /\ flagSet = FALSE
    /\ xsd_schema = "None"
    /\ check_filesystem = FALSE
    /\ pc = "idle"
    /\ xml_file = 0
    /\ result = ValidationResult
    /\ stageLog = << >>
    /\ raised = FALSE
    /\ tool = NoTool
    /\ indices = NoIndices
    /\ errors = << >>
    /\ firstRun = NoRun
    /\ hashseed \in HashSeeds
    /\ rule_pos = 0
    /\ dest_in = << >>
    /\ normalized_out = << >>
    /\ short_name_out = << >>
    /\ norm_pc = "input"
    /\ gen_count \in 1..MaxCount
    /\ attempted = 0
    /\ valid_examples = << >>
    /\ dataset = << >>
    /\ gen_pc = "loop"

\* one pass of the while loop: attempted += 1, then the try block.  Document d
\* is generated and validated unless generate_prompt_and_xml raises; a valid
\* one is appended to valid_examples (export_xml_to_file, which follows the
\* append, can raise: the except clause goes on to the next pass either way)
Attempt(d) ==
    /\ gen_pc = "loop"
    /\ Len(valid_examples) < gen_count /\ attempted < max_attempts(gen_count)
    /\ attempted' = attempted + 1
    /\ \/ UNCHANGED valid_examples
       \/ \E schema_result \in validate_xml_schema(environ, Docs[d]),
             logical_result \in validate_xml_logical(environ, Docs[d], hashseed) :
             LET validation_result == validate_xml_complete(schema_result, logical_result)
             IN  IF val_service_is_valid(validation_result)
                 THEN valid_examples' =
                          Append(valid_examples,
                                 [xml |-> d, validation_result |-> validation_result])
                 ELSE UNCHANGED valid_examples
    /\ UNCHANGED << pipeline_vars, norm_vars, gen_count, dataset, gen_pc >>

\* the while condition is false
LoopExit ==
    /\ gen_pc = "loop"
    /\ ~(Len(valid_examples) < gen_count /\ attempted < max_attempts(gen_count))
    /\ gen_pc' = "save"
    /\ UNCHANGED << pipeline_vars, norm_vars, gen_count, attempted, valid_examples, dataset >>

\* if valid_examples: jsonl_manager.insert_category_data(...), which writes
\* the records or raises; then the summary
Save ==
    /\ gen_pc = "save"
    /\ IF valid_examples # << >>
       THEN dataset' \in { dataset \o valid_examples, dataset }
       ELSE UNCHANGED dataset
    /\ gen_pc' = "end"
    /\ UNCHANGED << pipeline_vars, norm_vars, gen_count, attempted, valid_examples >>

\* KeyboardInterrupt inside the loop: no except clause of the loop takes it,
\* main prints "Operation cancelled by user" and exits
Cancel ==
    /\ gen_pc = "loop"
    /\ gen_pc' = "cancelled"
    /\ UNCHANGED << pipeline_vars, norm_vars, gen_count, attempted, valid_examples, dataset >>

NextGen ==
    \/ \E d \in GenDocs : Attempt(d)
    \/ LoopExit
    \/ Save
    \/ Cancel

\* every call of a pass returns (the external validator runs under a timeout)
\* and the interpreter goes on to the next statement
SpecGen == InitGen /\ [][NextGen]_vars /\ WF_vars(NextGen)

-----------------------------------------------------------------------------
(* Properties *)

StageOrder == << "xsd", "schematron", "python" >>

\* C1: validate_file runs the schema stage, the declarative stage and the rule
\* engine stage, each once and in that order, whatever the earlier stages
\* reported; no stage ends the call early, and the finished result carries the
\* three booleans and the three finding lists.
C1_AllStagesInOrder ==
    /\ \E n \in 0..3 : stageLog = Take(StageOrder, n)
    /\ pc = "schematron" => stageLog = Take(StageOrder, 1)
    /\ pc = "python" => stageLog = Take(StageOrder, 2)
    /\ pc = "done" => /\ stageLog = StageOrder
                      /\ DOMAIN result = { "xsd_passed", "xsd_errors", "schematron_passed",
                                           "schematron_errors", "python_passed", "python_errors" }
    /\ pc # "aborted"

\* a finished call whose first two stages failed and whose third stage ran
C1_Witness ==
    /\ pc = "done"
    /\ ~result.xsd_passed
    /\ ~result.schematron_passed
    /\ stageLog = StageOrder

C3_ValidIsConjunction ==
    /\ is_valid(result) <=>
          (result.xsd_passed /\ result.schematron_passed /\ result.python_passed)
    /\ (pc = "done" /\ total_errors(result) = 0) =>
          /\ result.xsd_passed
          /\ result.schematron_passed
          /\ result.python_passed
          /\ is_valid(result)

\* a finished call on a clean document with verdict valid after both engines ran
C3_Witness ==
    /\ pc = "done"
    /\ Doc = DocClean
    /\ tool.xsd.kind = "valid"
    /\ tool.sch.kind = "exit"
    /\ total_errors(result) = 0
    /\ is_valid(result)

\* C4: when the schematron tool times out or cannot be started, the stage is
\* failed with exactly one synthetic finding, no exception leaves validate_file,
\* and the rule-engine stage runs afterwards.
C4_ToolFailureIsFinding ==
    tool.sch.kind \in { "timeout", "raise" } =>
        /\ ~raised
        /\ pc \in { "python", "done" }
        /\ ~result.schematron_passed
        /\ result.schematron_errors =
              << Text(IF tool.sch.kind = "timeout" THEN "Schematron validation timed out"
                      ELSE "Schematron validation error") >>
        /\ pc = "done" => stageLog[3] = "python"

\* a finished call whose schematron tool timed out
C4_Witness ==
    /\ pc = "done"
    /\ tool.sch.kind = "timeout"
    /\ Len(result.schematron_errors) = 1
    /\ stageLog = StageOrder

\* the tool ended and printed neither a pass nor a fail marker
NoMarker ==
    /\ tool.sch.kind = "exit"
    /\ ~tool.sch.out.passed_tokens
    /\ ~tool.sch.out.failed_tokens

\* C5 (as stated): a stage whose tool produced no result (no schema loaded;
\* tool output with neither pass nor fail marker) is never recorded as passed.
C5_NoResultNeverPassed ==
    pc = "done" =>
        /\ xsd_schema = "None" => ~result.xsd_passed
        /\ NoMarker => ~result.schematron_passed

\* C5 (amended): a stage whose tool produced no result is recorded as passed
\* with an empty finding list, unless the tool ended with a non-zero exit code:
\* without a loaded schema the schema stage passes; tool output with neither
\* marker passes exactly when the exit code is 0.
C5_NoResultPassesUnlessExitCode ==
    pc = "done" =>
        /\ xsd_schema = "None" => (result.xsd_passed /\ result.xsd_errors = << >>)
        /\ NoMarker => /\ result.schematron_passed <=> tool.sch.out.returncode = 0
                       /\ result.schematron_passed => result.schematron_errors = << >>
                       /\ ~result.schematron_passed => result.schematron_errors # << >>

\* a finished call without schema whose tool ended with code 0 and no marker
C5_Witness ==
    /\ pc = "done"
    /\ xsd_schema = "None"
    /\ NoMarker
    /\ tool.sch.out.returncode = 0
    /\ result.xsd_passed
    /\ result.schematron_passed

\* C6 (as stated): constructing the pipeline while the schema file or the
\* schematron file is missing fails at construction.
C6_MissingFileFailsConstruction ==
    (~environ.xsdFile \/ ~environ.schFile) => pstate # "ready"

\* C6 (amended): construction never fails on a missing schema or schematron
\* file.  A missing or unloadable schema leaves the pipeline without schema,
\* and its schema stage passes every document with no finding; a missing
\* schematron file shows per document, as a failed declarative stage, when the
\* tool process ends.
C6_MissingFileSurfacesPerDocument ==
    /\ pstate # "failed"
    /\ pstate = "ready" =>
          (xsd_schema = "None" <=> (~environ.xmlschema \/ ~environ.xsdFile))
    /\ (pc = "done" /\ ~environ.xsdFile) =>
          (result.xsd_passed /\ result.xsd_errors = << >>)
    /\ (pc = "done" /\ ~environ.schFile /\ tool.sch.kind = "exit") =>
          (~result.schematron_passed /\ result.schematron_errors # << >>)

\* a pipeline built with both files missing that finished a document
C6_Witness ==
    /\ pstate = "ready"
    /\ ~environ.xsdFile
    /\ ~environ.schFile
    /\ pc = "done"
    /\ tool.sch.kind = "exit"
    /\ result.xsd_passed
    /\ ~result.schematron_passed

\* C7: two runs of validate_all on the same document with the same flag yield
\* the same findings in the same order.
C7_SameFindingsSameOrder ==
    (pc = "done" /\ firstRun.doc = xml_file) => errors = firstRun.errors

RuleNumbers(errs) == { errs[k].rule_number : k \in 1..Len(errs) }

\* the documents whose only defect is one unresolved reference, each a check
\* of its own
SingleReferenceDefect == { DocBadRunnableRef, DocBadClusterAppRef, DocBadCoreAppRef }

\* the rule numbers a document can be reported under
RuleNumbersOf(doc, cfs) ==
    UNION { RuleNumbers(errs) :
                errs \in validate_all(Self(doc, _build_indices(NoIndices, doc), cfs, hashseed)) }

\* C8: a document that violates one check only is reported under one rule
\* number, and that number belongs to that check alone: an unresolved
\* RunnableRef, an unresolved Cluster-PrebuiltApplication-Mapping reference and
\* an unresolved Core-PrebuiltApplication-Mapping reference get one number
\* each, no two of them the same.
C8_RuleNumbersOneToOne ==
    (pc = "done" /\ Doc \in SingleReferenceDefect) =>
        /\ Cardinality(RuleNumbers(errors)) = 1
        /\ \A other \in SingleReferenceDefect \ { Doc } :
              RuleNumbersOf(other, check_filesystem) \cap RuleNumbers(errors) = { }

\* a finding made by a check that looks at the filesystem
FilesystemFinding(err) ==
    err.message.id \in { "PRE-BUILT-APPLICATION PATH does not exist on filesystem",
                         "PRE-BUILT-APPLICATION PATH exists but is not executable",
                         "CUSTOM-OPERATION attribute not found" }

FilesystemFindings == { k \in 1..Len(errors) : FilesystemFinding(errors[k]) }

\* C9 (as stated): filesystem checks run only when the flag was explicitly
\* enabled; a pipeline built or launched without setting the flag, or with the
\* flag false, never emits a finding of these checks.
C9_FilesystemOnlyWhenEnabled ==
    (pstate = "ready" /\ ~(flagSet /\ check_filesystem)) => FilesystemFindings = { }

\* C9 (amended): filesystem checks run exactly when the pipeline's
\* check_filesystem is true, and it is true by default: a pipeline built or
\* launched without setting the flag has it true; with the flag false no
\* finding of these checks is emitted.
C9_FilesystemOnByDefault ==
    pstate = "ready" =>
        /\ ~flagSet => check_filesystem
        /\ ~check_filesystem => FilesystemFindings = { }

\* a finished call with the flag explicitly false on a document whose
\* pre-built application is not on disk, and no finding
C9_Witness ==
    /\ pc = "done"
    /\ flagSet
    /\ ~check_filesystem
    /\ Doc = DocAppMissing
    /\ errors = << >>
    /\ result.python_passed

\* C10: in a sequence of documents validated by one pipeline, the rule-engine
\* verdict and findings of a document equal those it gets when validated alone
\* (first), and the indices in use are those built from that document.
C10_NothingLeaks ==
    (pc = "done" /\ firstRun.doc = xml_file) =>
        /\ result.python_passed = firstRun.python_passed
        /\ result.python_errors = firstRun.python_errors
        /\ indices = (IF Doc.wellFormed THEN _build_indices(NoIndices, Doc) ELSE NoIndices)

-----------------------------------------------------------------------------
(* The rule engine, rule by rule *)

\* s is the beginning of t
IsPrefix(s, t) == Len(s) <= Len(t) /\ SubSeq(t, 1, Len(s)) = s

-----------------------------------------------------------------------------
(* The findings of single rules, read off the list a finished run returned *)

\* the pipeline has returned the result of a well-formed document
Finished == pc = "done" /\ xml_file # 0 /\ Doc.wellFormed

\* how many findings of the rule, with the message, sit at the location
NumFindings(rule_number, id, xpath) ==
    Cardinality({ k \in 1..Len(errors) :
                    /\ errors[k].rule_number = rule_number
                    /\ errors[k].message.id = id
                    /\ errors[k].xpath = xpath })

\* how many accesses of the direction reference port `name` of component i
NumReferences(dir, i, name) ==
    Cardinality({ wk \in UNION { { << w, k >> : k \in 1..Len(Doc.swcs[w].accesses) } :
                                 w \in 1..Len(Doc.swcs) } :
                    /\ Doc.swcs[wk[1]].accesses[wk[2]].dir = dir
                    /\ Doc.swcs[wk[1]].accesses[wk[2]].portRef
                           = << SLASH >> \o Doc.swcs[i].name \o << SLASH >> \o name })

\* the port at xpath, referenced n times, has the findings of the rule it should
CardinalityFindings(rule_number, n, xpath) ==
    LET zero == NumFindings(rule_number, "port has ZERO references", xpath)
        many == NumFindings(rule_number, "port has more than one reference", xpath)
    IN  /\ n = 1 => zero = 0 /\ many = 0
        /\ n = 0 => zero = 1 /\ many = 0
        /\ n >= 2 => zero = 0 /\ many = 1

TerminalSegment(ref) == Last(split(strip(ref, BLANK), << >>))

\* the SHORT-NAMEs of the data accesses of a direction
AccessNames(dir) ==
    UNION { { Doc.swcs[w].accesses[k].name :
                k \in { q \in 1..Len(Doc.swcs[w].accesses) :
                          /\ Doc.swcs[w].accesses[q].dir = dir
                          /\ Doc.swcs[w].accesses[q].name # << >> } } :
            w \in 1..Len(Doc.swcs) }

OpDir(kind) == IF kind = "READ" THEN "read" ELSE "write"
OpRule(kind) == IF kind = "READ" THEN 22 ELSE 23

\* the operations of component i that carry a non-empty reference
OpsWithReference(i) ==
    { k \in 1..Len(Doc.swcs[i].ops) :
        Doc.swcs[i].ops[k].iref /\ strip(Doc.swcs[i].ops[k].dest, BLANK) # << >> }

HwipPortNames(h, dir) ==
    LET ports == IF dir = "write" THEN Doc.hwips[h].pports ELSE Doc.hwips[h].rports
    IN  { ports[k].name : k \in { m \in 1..Len(ports) : ports[m].name # << >> } }

Opposite(dir) == IF dir = "read" THEN "write" ELSE "read"

\* the READ / WRITE children, with a non-empty reference, of the OPERATIONs of
\* hardware block h: pairs << OPERATION, child >>
HwipOpsWithReference(h) ==
    { oc \in UNION { { << o, c >> : c \in 1..Len(Doc.hwips[h].ops[o]) } :
                     o \in 1..Len(Doc.hwips[h].ops) } :
        /\ Doc.hwips[h].ops[oc[1]][oc[2]].iref
        /\ strip(Doc.hwips[h].ops[oc[1]][oc[2]].dest, BLANK) # << >> }

HwipOpXPath(h, oc) ==
    XPath("OPERATION/" \o Doc.hwips[h].ops[oc[1]][oc[2]].kind, h,
          ChildrenBefore(Doc.hwips[h].ops, oc[1]) + oc[2])

\* the findings of the rule at the location that are not the `unresolved` message
MismatchFindings(rule_number, unresolved, xpath) ==
    { k \in 1..Len(errors) :
        /\ errors[k].rule_number = rule_number
        /\ errors[k].xpath = xpath
        /\ errors[k].message.id # unresolved }

NamedRunnables == Filter(LAMBDA r : r.name # << >>, Runnables(Doc))

\* the occurrences of the name of runnable k before it
EarlierOccurrences(k) ==
    { m \in 1..(k - 1) : NamedRunnables[m].name = NamedRunnables[k].name }

DuplicateFindings ==
    { e \in 1..Len(errors) : errors[e].rule_number = 6 }

\* C15: rule 6 reports every runnable whose name an earlier runnable carries,
\* once, at its own location and citing the location of the first runnable of
\* that name, and nothing else: a name occurring k times has k-1 findings, two
\* runnables sharing a name one, distinct names none.
C15_DuplicateRunnableCitesFirst ==
    Finished =>
        /\ \A k \in 1..Len(NamedRunnables) :
               LET at == { e \in DuplicateFindings : errors[e].xpath = NamedRunnables[k].xpath }
               IN  IF EarlierOccurrences(k) = { } THEN at = { }
                   ELSE /\ Cardinality(at) = 1
                        /\ \A e \in at : \E m \in EarlierOccurrences(k) :
                               /\ \A n \in EarlierOccurrences(k) : m <= n
                               /\ errors[e].message.at = NamedRunnables[m].xpath
        /\ Cardinality(DuplicateFindings)
               = Cardinality({ k \in 1..Len(NamedRunnables) : EarlierOccurrences(k) # { } })

\* a finished run on a document with a name carried by three runnables
C15_Witness ==
    /\ Finished
    /\ \E k \in 1..Len(NamedRunnables) : Cardinality(EarlierOccurrences(k)) = 2
    /\ Cardinality(DuplicateFindings) >= 2

\* how many Core-Runnable-Mappings name the runnable: their RunnableRef ends in
\* its name
NumMappings(name) ==
    Cardinality({ m \in 1..Len(Crms(Doc)) :
                    /\ strip(Crms(Doc)[m].RunnableRef, BLANK) # << >>
                    /\ TerminalSegment(Crms(Doc)[m].RunnableRef) = name })

FindingsAt(rule_number, xpath) ==
    { e \in 1..Len(errors) : errors[e].rule_number = rule_number /\ errors[e].xpath = xpath }

\* C16: a named runnable that no Core-Runnable-Mapping names has exactly one
\* rule 9 finding, one that two or more name has exactly one rule 10 finding,
\* and one that exactly one names has neither (nor a rule 10, respectively
\* rule 9, finding in the other cases).
C16_MappedToExactlyOneCore ==
    Finished =>
        \A k \in 1..Len(NamedRunnables) :
            LET r == NamedRunnables[k]
                n == NumMappings(r.name)
                unmapped == Cardinality(FindingsAt(9, r.xpath))
                twice == Cardinality(FindingsAt(10, r.xpath))
            IN  /\ n = 0 => unmapped = 1 /\ twice = 0
                /\ n = 1 => unmapped = 0 /\ twice = 0
                /\ n >= 2 => unmapped = 0 /\ twice = 1

\* a finished run on runnables mapped never, once and twice
C16_Witness ==
    /\ Finished
    /\ \E a, b, c \in 1..Len(NamedRunnables) :
           /\ NumMappings(NamedRunnables[a].name) = 0
           /\ NumMappings(NamedRunnables[b].name) = 1
           /\ NumMappings(NamedRunnables[c].name) = 2
           /\ FindingsAt(9, NamedRunnables[a].xpath) # { }
           /\ FindingsAt(10, NamedRunnables[c].xpath) # { }

\* the cluster a mapping element names: the terminal segment of the ClusterRef
\* it carries itself, else of the ClusterRef of its HW-SW-MAPPING
TargetCluster(own, m) ==
    IF strip(own, BLANK) # << >> THEN TerminalSegment(own)
    ELSE TerminalSegment(Doc.mappings[m].ClusterRef)

RunnableMappingTargets ==
    { TargetCluster(<< >>, Crms(Doc)[k].mapping) : k \in 1..Len(Crms(Doc)) }

PrebuiltMappingTargets ==
    { TargetCluster(<< >>, CorePams(Doc)[k].mapping) : k \in 1..Len(CorePams(Doc)) }
    \cup { TargetCluster(ClusterPams(Doc)[k].ClusterRef, ClusterPams(Doc)[k].mapping) :
             k \in 1..Len(ClusterPams(Doc)) }

\* the clusters named by mappings of both kinds
SharedClusters == RunnableMappingTargets \cap PrebuiltMappingTargets

\* every mapping element with the cluster it names
MappingElements ==
    { [xpath |-> Crms(Doc)[k].xpath, cluster |-> TargetCluster(<< >>, Crms(Doc)[k].mapping)] :
        k \in 1..Len(Crms(Doc)) }
    \cup { [xpath |-> CorePams(Doc)[k].xpath,
            cluster |-> TargetCluster(<< >>, CorePams(Doc)[k].mapping)] :
             k \in 1..Len(CorePams(Doc)) }
    \cup { [xpath |-> ClusterPams(Doc)[k].xpath,
            cluster |-> TargetCluster(ClusterPams(Doc)[k].ClusterRef,
                                      ClusterPams(Doc)[k].mapping)] :
             k \in 1..Len(ClusterPams(Doc)) }

\* C17: rule 74 has findings exactly when some cluster is named by a runnable
\* mapping and by a prebuilt-application mapping (core-level or cluster-level);
\* then every mapping element naming such a cluster has one finding, and the
\* elements naming a cluster of one kind of mapping have none.
C17_ClusterOfOneKind ==
    Finished =>
        /\ \A m \in MappingElements :
               Cardinality(FindingsAt(74, m.xpath))
                   = IF m.cluster \in SharedClusters THEN 1 ELSE 0
        /\ Cardinality({ e \in 1..Len(errors) : errors[e].rule_number = 74 })
               = Cardinality({ m \in MappingElements : m.cluster \in SharedClusters })
        /\ (\E e \in 1..Len(errors) : errors[e].rule_number = 74) <=> SharedClusters # { }

\* a finished run on a document with a cluster of both kinds, named from two
\* HW-SW-MAPPINGs, and a cluster of one kind
C17_Witness ==
    /\ Finished
    /\ SharedClusters # { }
    /\ PrebuiltMappingTargets \ SharedClusters # { }
    /\ \E m \in MappingElements : m.cluster \notin SharedClusters
    /\ \E e \in 1..Len(errors) : errors[e].rule_number = 74

\* the Core-PrebuiltApplication-Mappings with an integer CoreId whose
\* HW-SW-MAPPING names an existing cluster that has an integer CoresPerCluster,
\* each with the two numbers
CheckedCoreMappings ==
    { [xpath |-> CorePams(Doc)[kc[1]].xpath, CoreId |-> CorePams(Doc)[kc[1]].CoreId.v,
       CoresPerCluster |-> Clusters(Doc)[kc[2]].CoresPerCluster.v] :
        kc \in { p \in (1..Len(CorePams(Doc))) \X (1..Len(Clusters(Doc))) :
                   /\ CorePams(Doc)[p[1]].CoreId.kind = "int"
                   /\ Clusters(Doc)[p[2]].CoresPerCluster.kind = "int"
                   /\ Clusters(Doc)[p[2]].name
                          = TerminalSegment(Doc.mappings[CorePams(Doc)[p[1]].mapping].ClusterRef) } }

\* C18: a core mapping whose CoreId is CoresPerCluster - 1 of the cluster it
\* names has no rule 79 finding, one whose CoreId is CoresPerCluster has
\* exactly one.
C18_RangeBoundary ==
    Finished =>
        \A m \in CheckedCoreMappings :
            /\ m.CoreId = m.CoresPerCluster - 1 => FindingsAt(79, m.xpath) = { }
            /\ m.CoreId = m.CoresPerCluster => Cardinality(FindingsAt(79, m.xpath)) = 1

\* a finished run on a cluster with a mapping on its last core and one behind it
C18_Witness ==
    /\ Finished
    /\ \E a, b \in CheckedCoreMappings :
           /\ a.CoreId = a.CoresPerCluster - 1
           /\ b.CoreId = b.CoresPerCluster
           /\ FindingsAt(79, a.xpath) = { }
           /\ FindingsAt(79, b.xpath) # { }

\* the findings of the CoreId rules (77, 79) at a location
RangeFindings(xpath) == FindingsAt(77, xpath) \cup FindingsAt(79, xpath)

\* C19: a core mapping with an integer CoreId that names an existing cluster
\* with a CoresPerCluster is reported exactly when its CoreId is outside
\* [0, CoresPerCluster): below 0 or at or above CoresPerCluster.
C19_CoreIdInHalfOpenInterval ==
    Finished =>
        \A m \in CheckedCoreMappings :
            RangeFindings(m.xpath) # { } <=> (m.CoreId < 0 \/ m.CoreId >= m.CoresPerCluster)

\* the interface identifiers the accesses of a direction of runnable j of
\* component i reach: the terminal segment of the TREF of the port each names
InterfacesReached(i, j, dir) ==
    { TerminalSegment(q.tref) :
        q \in { p \in Range(SwcPorts(Doc, "P-PORT-PROTOTYPE"))
                      \cup Range(SwcPorts(Doc, "R-PORT-PROTOTYPE")) :
                  /\ p.name # << >> /\ p.swc_name # << >> /\ p.tref # << >>
                  /\ \E k \in 1..Len(Doc.swcs[i].accesses) :
                         LET a == Doc.swcs[i].accesses[k]
                         IN  /\ a.runnable = j
                             /\ a.dir = dir
                             /\ lstrip(strip(a.portRef, BLANK), SLASH)
                                    = p.swc_name \o << SLASH >> \o p.name } }

\* the interface identifiers the named ports of a list name
InterfacesNamed(ports) ==
    { TerminalSegment(ports[k].tref) :
        k \in { m \in 1..Len(ports) : ports[m].name # << >> /\ ports[m].tref # << >> } }

\* rule 14: a runnable has one finding if it reads and writes some interface,
\* none otherwise
ReadWriteExclusive ==
    \A i \in 1..Len(Doc.swcs) : \A j \in 1..Len(Doc.swcs[i].runnables) :
        Cardinality(FindingsAt(14, XPath("RUNNABLE-ENTITY", i, j)))
            = IF InterfacesReached(i, j, "read") \cap InterfacesReached(i, j, "write") # { }
              THEN 1 ELSE 0

\* rule 60: a hardware block has a finding exactly if some interface is named
\* by one of its provide-ports and one of its require-ports
ProvideRequireExclusive ==
    \A h \in { g \in 1..Len(Doc.hwips) : Doc.hwips[g].name # << >> } :
        FindingsAt(60, XPath("Generic_Hardware", h, 0)) # { }
            <=> InterfacesNamed(Doc.hwips[h].pports) \cap InterfacesNamed(Doc.hwips[h].rports)
                    # { }

\* C20: no owner uses an interface in both directions: a runnable has exactly
\* one rule 14 finding if and only if its read and its write accesses reach a
\* common interface; a hardware block has a rule 60 finding if and only if a
\* provide-port and a require-port of it name a common interface; references
\* name the same interface when they end in the same interface identifier.
C20_NoInterfaceInBothDirections ==
    Finished => ReadWriteExclusive /\ ProvideRequireExclusive

\* the runnables (component, position) owning a data access that an
\* operation of the sequence of component i resolves to: the access whose
\* SHORT-NAME is the terminal segment of the operation's IREF/@DEST
SequenceOwners(i) ==
    UNION { { << w, Doc.swcs[w].accesses[k].runnable >> :
                k \in { a \in 1..Len(Doc.swcs[w].accesses) :
                    /\ Doc.swcs[w].accesses[a].name # << >>
                    /\ Doc.swcs[w].runnables[Doc.swcs[w].accesses[a].runnable] # << >>
                    /\ \E m \in 1..Len(Doc.swcs[i].ops) :
                           /\ Doc.swcs[i].ops[m].iref
                           /\ strip(Doc.swcs[i].ops[m].dest, BLANK) # << >>
                           /\ TerminalSegment(Doc.swcs[i].ops[m].dest)
                                  = Doc.swcs[w].accesses[a].name } } :
            w \in 1..Len(Doc.swcs) }

\* C21: rule 24 emits exactly one finding for an operation sequence if and
\* only if its READ/WRITE operations resolve to data accesses owned by more
\* than one distinct runnable, and none when they all belong to one runnable.
C21_SequenceOfOneRunnable ==
    Finished =>
        \A i \in 1..Len(Doc.swcs) :
            Cardinality(FindingsAt(24, XPath("OPERATIONS-SEQUENCE", i, 0)))
                = IF Cardinality(SequenceOwners(i)) > 1 THEN 1 ELSE 0

\* the string neither begins nor ends with whitespace or "/"
Trimmed(s) == s = << >> \/ ({ Head(s), Last(s) } \cap { BLANK, SLASH } = { })

\* C22: the normalized path and the identifier extracted from it never begin
\* or end with whitespace or "/", normalizing a normalized path returns it
\* unchanged, and the identifier is the final segment of the normalized path.
C22_NormalizationTrimsAndIsIdempotent ==
    /\ norm_pc \in { "normalized", "extracted" }
           => Trimmed(normalized_out) /\ _normalize_dest_path(normalized_out) = normalized_out
    /\ norm_pc = "extracted"
           => Trimmed(short_name_out) /\ short_name_out = Last(split(normalized_out, << >>))

\* the value of the first of the three strategies of rule 41 that yields one
\* for PRE-BUILT-APPLICATION k (<< >>: none does); a path naming several
\* allowed toolchains yields any of them
FirstToolchains(k) ==
    LET app == Doc.apps[k]
    IN  IF ToolchainElement(app) # << >> THEN { ToolchainElement(app) }
        ELSE IF ToolchainOfShortName(app) # << >> THEN { ToolchainOfShortName(app) }
        ELSE ToolchainsOfPath(app)

\* C23: rule 41 takes the toolchain of a prebuilt application from the first
\* strategy that yields a value (TOOLCHAIN element, suffix of the SHORT-NAME,
\* substring of the PATH); the application gets exactly one 'invalid
\* toolchain' finding iff that value is not GCC, ARM, CLANG or MSVC, exactly
\* one 'missing toolchain indicator' finding iff no strategy yields a value,
\* and never both.
C23_FirstToolchainStrategyDecides ==
    Finished =>
        \A k \in 1..Len(Doc.apps) :
            LET at == XPath("PRE-BUILT-APPLICATION", k, 0)
                invalid == NumFindings(41, "PRE-BUILT-APPLICATION has invalid toolchain", at)
                missing == NumFindings(41, "PRE-BUILT-APPLICATION missing toolchain indicator", at)
            IN  /\ invalid = IF FirstToolchains(k) \cap (valid_toolchains \cup { << >> }) = { }
                             THEN 1 ELSE 0
                /\ missing = IF FirstToolchains(k) = { << >> } THEN 1 ELSE 0
                /\ invalid + missing <= 1
                /\ Cardinality(FindingsAt(41, at)) = invalid + missing

\* a run over prebuilt applications of every kind: one whose SHORT-NAME suffix
\* is not allowed while its PATH names an allowed toolchain, one whose
\* TOOLCHAIN element is not allowed while its SHORT-NAME suffix is, one
\* without any indicator and one whose toolchain is found in the PATH only
C23_Witness ==
    /\ Finished
    /\ \E k \in 1..Len(Doc.apps) :
           /\ ToolchainElement(Doc.apps[k]) = << >>
           /\ ToolchainOfShortName(Doc.apps[k]) \notin valid_toolchains \cup { << >> }
           /\ ToolchainsOfPath(Doc.apps[k]) # { << >> }
           /\ Cardinality(FindingsAt(41, XPath("PRE-BUILT-APPLICATION", k, 0))) = 1
    /\ \E k \in 1..Len(Doc.apps) :
           /\ ToolchainElement(Doc.apps[k]) \notin valid_toolchains \cup { << >> }
           /\ ToolchainOfShortName(Doc.apps[k]) \in valid_toolchains
    /\ \E k \in 1..Len(Doc.apps) : FirstToolchains(k) = { << >> }
    /\ \E k \in 1..Len(Doc.apps) :
           /\ ToolchainOfShortName(Doc.apps[k]) = << >>
           /\ FirstToolchains(k) \subseteq valid_toolchains
           /\ FindingsAt(41, XPath("PRE-BUILT-APPLICATION", k, 0)) = { }

\* some node of the document enables power analysis
PowerAnalysisEnabled ==
    \E k \in 1..Len(Doc.analysis) :
        \/ Doc.analysis[k].kind \in { "PowerAnalysis", "Analysis" } /\ Doc.analysis[k].value = "true"
        \/ Doc.analysis[k].kind = "Power-Analysis-Enable"

\* C24: power analysis enabled by any node restricts every CPU cluster of the
\* document: each cluster whose operating system is not Nucleus_RTOS has one
\* rule 84 finding and each cluster whose CoresPerCluster is a number other
\* than 1 has one rule 85 finding; without an enabling node rules 83, 84 and
\* 85 emit nothing.
C24_PowerAnalysisRestrictsEveryCluster ==
    Finished =>
        IF PowerAnalysisEnabled
        THEN \A i \in 1..Len(Doc.socs) : \A j \in 1..Len(Doc.socs[i].clusters) :
                LET cluster == Doc.socs[i].clusters[j]
                IN  /\ cluster.os # "Nucleus_RTOS"
                        => Cardinality(FindingsAt(84, XPath("CPU_Cluster", i, j))) = 1
                    /\ cluster.CoresPerCluster.kind = "int" /\ cluster.CoresPerCluster.v # 1
                        => Cardinality(FindingsAt(85, XPath("CPU_Cluster", i, j))) = 1
        ELSE \A e \in 1..Len(errors) : errors[e].rule_number \notin { 83, 84, 85 }

\* a run with power analysis enabled over a document whose second SoC holds a
\* cluster with another operating system and another core count
C24_Witness ==
    /\ Finished
    /\ PowerAnalysisEnabled
    /\ \E i \in 2..Len(Doc.socs) : \E j \in 1..Len(Doc.socs[i].clusters) :
           /\ Doc.socs[i].clusters[j].os \notin { "", "Nucleus_RTOS" }
           /\ Doc.socs[i].clusters[j].CoresPerCluster.kind = "int"
           /\ Doc.socs[i].clusters[j].CoresPerCluster.v # 1
           /\ FindingsAt(84, XPath("CPU_Cluster", i, j)) # { }
           /\ FindingsAt(85, XPath("CPU_Cluster", i, j)) # { }

\* the name matches [A-Za-z_][A-Za-z0-9_]* from its first to its last character
IsIdentifier(name) ==
    /\ name # << >>
    /\ \A i \in 1..Len(name) : name[i] \notin Punctuation
    /\ name[1] \notin DigitFirst

\* the named runnables, interfaces, SoCs, chiplets, hardware blocks, ECUs,
\* events and clusters of the document, each with the number of its naming rule
NamedEntities ==
    LET of(rule_number, nodes) ==
            { [rule_number |-> rule_number, name |-> nodes[k].name, xpath |-> nodes[k].xpath] :
                k \in { m \in 1..Len(nodes) : nodes[m].name # << >> } }
    IN  of(7, Runnables(Doc))
        \cup of(16, Events(Doc))
        \cup of(28, Named("SENDER-RECEIVER-INTERFACE", Doc.sris))
        \cup of(44, Named("ECUs", Doc.ecus))
        \cup of(46, Named("SoCs", [i \in 1..Len(Doc.socs) |-> Doc.socs[i].name]))
        \cup of(52, Named("Chiplet", Doc.chiplets))
        \cup of(56, Named("Generic_Hardware", [h \in 1..Len(Doc.hwips) |-> Doc.hwips[h].name]))
        \cup of(70, MapSeq(LAMBDA c : [name |-> c.name,
                                       xpath |-> XPath("CPU_Cluster/SHORT-NAME", c.xpath.i,
                                                       c.xpath.j)],
                           Clusters(Doc)))

\* C25: the naming rules 7, 16, 28, 44, 46, 52, 56 and 70 reject a name
\* exactly when it does not match [A-Za-z_][A-Za-z0-9_]* or is a C keyword,
\* all alike, and every named runnable, interface, SoC, chiplet, hardware
\* block, ECU and event is checked.
C25_NamingRulesAgree ==
    Finished =>
        \A n \in NamedEntities :
            (FindingsAt(n.rule_number, n.xpath) # { })
                <=> (~IsIdentifier(n.name) \/ n.name \in c_keywords)


-----------------------------------------------------------------------------
(* Renaming.  An identifier is renamed by replacing it in every SHORT-NAME  *)
(* that carries it and in every segment of every reference that names it.   *)

RECURSIVE Join(_)
Join(segs) ==
    IF Len(segs) = 1 THEN segs[1]
    ELSE segs[1] \o << SLASH >> \o Join(Tail(segs))

RenameName(name, old, new) == IF name = old THEN new ELSE name

\* a segment of a reference that is old between blanks, with new in its place
RenameSegment(seg, old, new) ==
    LET leading == Len(seg) - Len(lstrip(seg, BLANK))
        trailing == Len(seg) - Len(rstrip(seg, BLANK))
    IN  IF strip(seg, BLANK) = old
        THEN SubSeq(seg, 1, leading) \o new \o SubSeq(seg, Len(seg) - trailing + 1, Len(seg))
        ELSE seg

\* the reference with each of its segments that is old replaced by new
RenameRef(ref, old, new) ==
    Join(MapSeq(LAMBDA seg : RenameSegment(seg, old, new), split(ref, << >>)))

RenameDoc(doc, old, new) ==
    LET nm(x) == RenameName(x, old, new)
        rf(x) == RenameRef(x, old, new)
        port(p) == [p EXCEPT !.name = nm(p.name), !.tref = rf(p.tref)]
        op(o) == [o EXCEPT !.dest = rf(o.dest)]
        swc(c) == [c EXCEPT !.name = nm(c.name),
                            !.pports = MapSeq(port, c.pports),
                            !.rports = MapSeq(port, c.rports),
                            !.runnables = MapSeq(nm, c.runnables),
                            !.accesses = MapSeq(LAMBDA a : [a EXCEPT !.name = nm(a.name),
                                                                      !.portRef = rf(a.portRef)],
                                                c.accesses),
                            !.ops = MapSeq(op, c.ops)]
        hwip(h) == [h EXCEPT !.name = nm(h.name),
                             !.pports = MapSeq(port, h.pports),
                             !.rports = MapSeq(port, h.rports),
                             !.ops = MapSeq(LAMBDA children : MapSeq(op, children), h.ops)]
        soc(s) == [s EXCEPT !.name = nm(s.name),
                            !.clusters = MapSeq(LAMBDA c : [c EXCEPT !.name = nm(c.name)],
                                                s.clusters)]
        mapping(m) == [m EXCEPT !.ClusterRef = rf(m.ClusterRef),
                                !.crms = MapSeq(rf, m.crms),
                                !.corepams = MapSeq(rf, m.corepams),
                                !.cpams = MapSeq(rf, m.cpams),
                                !.cpamClusterRef = MapSeq(rf, m.cpamClusterRef)]
    IN  [doc EXCEPT !.sris = MapSeq(nm, doc.sris),
                    !.swcs = MapSeq(swc, doc.swcs),
                    !.socs = MapSeq(soc, doc.socs),
                    !.ethSwitches = MapSeq(LAMBDA refs : MapSeq(rf, refs), doc.ethSwitches),
                    !.mappings = MapSeq(mapping, doc.mappings),
                    !.apps = MapSeq(LAMBDA a : [a EXCEPT !.name = nm(a.name)], doc.apps),
                    !.hwips = MapSeq(hwip, doc.hwips),
                    !.irefs = MapSeq(rf, doc.irefs),
                    !.ecus = MapSeq(nm, doc.ecus),
                    !.chiplets = MapSeq(nm, doc.chiplets),
                    !.events = MapSeq(LAMBDA v : [v EXCEPT !.name = nm(v.name)], doc.events)]

\* the SHORT-NAMEs of the document, one entry for each element that has one
ShortNames(doc) ==
    LET names(nodes) == MapSeq(LAMBDA n : n.name, nodes)
        ports(c) == names(c.pports) \o names(c.rports)
    IN  doc.sris \o names(doc.swcs) \o names(doc.hwips) \o names(doc.socs)
        \o names(doc.apps) \o names(doc.events) \o doc.ecus \o doc.chiplets
        \o Concat(MapSeq(LAMBDA c : ports(c) \o c.runnables \o names(c.accesses), doc.swcs))
        \o Concat(MapSeq(ports, doc.hwips))
        \o Concat(MapSeq(LAMBDA s : names(s.clusters), doc.socs))

\* the segments of the references of the document
ReferenceSegments(doc) ==
    LET segs(refs) == UNION { { strip(seg, BLANK) : seg \in Range(split(refs[k], << >>)) } :
                                k \in 1..Len(refs) }
        dests(nodes) == MapSeq(LAMBDA n : n.dest, nodes)
        trefs(c) == MapSeq(LAMBDA p : p.tref, c.pports \o c.rports)
    IN  segs(doc.irefs)
        \cup segs(Concat(doc.ethSwitches))
        \cup segs(Concat(MapSeq(LAMBDA m : << m.ClusterRef >> \o m.crms \o m.corepams
                                           \o m.cpams \o m.cpamClusterRef, doc.mappings)))
        \cup segs(Concat(MapSeq(LAMBDA c : trefs(c) \o dests(c.ops)
                                           \o MapSeq(LAMBDA a : a.portRef, c.accesses),
                                doc.swcs)))
        \cup segs(Concat(MapSeq(LAMBDA h : trefs(h) \o dests(Concat(h.ops)), doc.hwips)))

\* identifiers an element can be renamed to
NewNames == { << "Zed" >>, << "Z", UNDERSCORE, "GCC" >>, << "Z", UNDERSCORE, "XY" >> }

ValidIdentifier(name) == IsIdentifier(name) /\ name \notin c_keywords

\* old is the SHORT-NAME of exactly one element of the document and new is a
\* valid identifier the document does not hold
Renamings ==
    LET names == ShortNames(Doc)
    IN  { r \in Range(names) \X NewNames :
            /\ ValidIdentifier(r[1])
            /\ Cardinality({ k \in 1..Len(names) : names[k] = r[1] }) = 1
            /\ r[2] \notin Range(names) \cup ReferenceSegments(Doc) }

\* the numbers of findings validate_all can return for the document renamed
RenamedCounts(r) ==
    LET doc == RenameDoc(Doc, r[1], r[2])
    IN  { Len(errs) : errs \in validate_all(Self(doc, PythonLogicalValidator(doc),
                                                 check_filesystem, hashseed)) }

\* C26: renaming an identifier that is unique in the document to another
\* valid identifier the document does not use, every reference to it updated,
\* leaves the number of findings of validate_all unchanged, whatever kind of
\* element carries the name (a PRE-BUILT-APPLICATION included).
C26_RenamingKeepsFindingCount ==
    pc = "returned" => \A r \in Renamings : RenamedCounts(r) = { Len(errors) }

\* rule 41 reads the toolchain of a PRE-BUILT-APPLICATION without TOOLCHAIN
\* text from its SHORT-NAME: the renaming changes what it reads there
ChangesToolchainOfShortName(r) ==
    \E k \in 1..Len(Doc.apps) :
        /\ Doc.apps[k].name = r[1]
        /\ ToolchainElement(Doc.apps[k]) = << >>
        /\ ToolchainOfShortName(Doc.apps[k])
               # ToolchainOfShortName([Doc.apps[k] EXCEPT !.name = r[2]])

\* C26 (amended): such a renaming leaves the number of findings of
\* validate_all unchanged unless the element is a PRE-BUILT-APPLICATION
\* without TOOLCHAIN text whose old and new SHORT-NAME end in different
\* toolchain suffixes.
C26_RenamingKeepsFindingCountButForToolchainSuffix ==
    pc = "returned" =>
        \A r \in Renamings :
            ~ChangesToolchainOfShortName(r) => RenamedCounts(r) = { Len(errors) }

\* a runnable that mappings refer to, a cluster, an interface, a port and a
\* PRE-BUILT-APPLICATION with findings of its own can each be renamed
C26_Witness ==
    /\ pc = "returned"
    /\ errors # << >>
    /\ \E r \in Renamings :
           /\ ~ChangesToolchainOfShortName(r)
           /\ \E k \in 1..Len(Doc.apps) : Doc.apps[k].name = r[1]
           /\ r[1] \in ReferenceSegments(Doc)
    /\ \E r \in Renamings :
           /\ \E i \in 1..Len(Doc.swcs) : r[1] \in Range(Doc.swcs[i].runnables)
           /\ r[1] \in ReferenceSegments(Doc)

\* C27: after validate_file returns, each of the three stage booleans is true
\* exactly when the finding list of its stage is empty, so a failed stage
\* carries at least one message; the rule-engine stage is failed by any
\* finding validate_all returned, one of severity "warning" included.
C27_StagePassedIffNoFinding ==
    (pc = "done" /\ xml_file # 0) =>
        /\ result.xsd_passed <=> result.xsd_errors = << >>
        /\ result.schematron_passed <=> result.schematron_errors = << >>
        /\ result.python_passed <=> result.python_errors = << >>
        /\ (Doc.wellFormed /\ errors # << >>) => ~result.python_passed

\* a finished call whose rule engine returned warnings only and whose other
\* two stages failed with messages of their own
C27_Witness ==
    /\ pc = "done"
    /\ Doc.wellFormed
    /\ errors # << >>
    /\ \A k \in 1..Len(errors) : errors[k].severity = "warning"
    /\ ~result.python_passed
    /\ Len(result.python_errors) = Len(errors)
    /\ ~result.xsd_passed
    /\ ~result.schematron_passed

\* the declarative stage of the current call has returned
SchematronReturned == ~raised /\ Len(stageLog) >= 2 /\ stageLog[2] = "schematron"

\* C28: the declarative stage passes exactly when the external validator
\* ended with exit code 0 and its output holds neither "[FAIL]" nor "FAILED";
\* in every other case the stage fails with a list of messages that is not
\* empty.
C28_DeclarativeStagePassesOnCleanExit ==
    SchematronReturned =>
        /\ result.schematron_passed
              <=> /\ tool.sch.kind = "exit"
                  /\ tool.sch.out.returncode = 0
                  /\ ~tool.sch.out.failed_tokens
        /\ ~result.schematron_passed => result.schematron_errors # << >>

\* the validator ended with exit code 0 after printing the pass line of a
\* file whose name holds "FAILED": the stage failed with that line as message
C28_Witness ==
    /\ SchematronReturned
    /\ tool.sch.kind = "exit"
    /\ tool.sch.out.returncode = 0
    /\ tool.sch.out.passed_tokens
    /\ tool.sch.out.failed_tokens
    /\ ~result.schematron_passed
    /\ Len(result.schematron_errors) = 1

\* C29: no finding of validate_all carries rule number 38 or 73: the call of
\* _validate_rule_40 leaves the findings that were in the list as they were
\* and adds the findings of the filesystem path check, each renumbered to 40.
C29_PathCheckFindingsCarry40 ==
    [][/\ \A k \in 1..Len(errors') : errors'[k].rule_number \notin { 38, 73 }
       /\ (rule_pos' = rule_pos + 1 /\ RuleOrder[rule_pos'] = "40") =>
              LET added == _validate_rule_38(Self(Doc, indices, check_filesystem, hashseed))
              IN  /\ Len(errors') = Len(errors) + Len(added)
                  /\ SubSeq(errors', 1, Len(errors)) = errors
                  /\ \A k \in 1..Len(added) :
                         errors'[Len(errors) + k] = [added[k] EXCEPT !.rule_number = 40]]_vars

\* a returned list that holds, behind a finding of another rule, a warning of
\* the path check under number 40
C29_Witness ==
    /\ pc = "returned"
    /\ check_filesystem
    /\ \E j, k \in 1..Len(errors) :
           /\ j < k
           /\ errors[j].rule_number # 40
           /\ errors[k].rule_number = 40
           /\ errors[k].severity = "warning"

-----------------------------------------------------------------------------
(* The dataset generation *)

Min(a, b) == IF a <= b THEN a ELSE b

\* the attempts stay within 50 * count, the collected examples within
\* min(count, attempts), and every example collected or inserted was judged
\* valid by both validations
GenerationInvariant ==
    gen_pc # "idle" =>
        /\ attempted <= AttemptsPerExample * gen_count
        /\ Len(valid_examples) <= Min(gen_count, attempted)
        /\ \A e \in Range(valid_examples) \cup Range(dataset) :
               /\ e.validation_result.schema
               /\ e.validation_result.logical
               /\ TRUE \in validate_xml_logical(environ, Docs[e.xml], hashseed)

\* C30: generate_category_data(count) keeps attempted <= 50 * count and
\* len(valid_examples) <= min(count, attempted), always terminates, and
\* collects and inserts only documents whose validation returned valid: none
\* judged invalid, none whose generation or validation raised.
C30_GenerationBoundedAndValidOnly ==
    /\ []GenerationInvariant
    /\ <>(gen_pc \in { "end", "cancelled" })

\* the loop has ended with count examples inserted after more than count
\* attempts, some of which collected nothing
C30_Witness ==
    /\ gen_pc = "end"
    /\ gen_count = MaxCount
    /\ Len(dataset) = gen_count
    /\ attempted > gen_count
====
